---- MODULE Spec2Model ----
(***************************************************************************)
(* State-machine model of the PM2X monitor: the App class of               *)
(* src/ui/app.ts together with the PM2Client wrapper of                    *)
(* src/services/pm2Client.ts.  Every event handler, timer callback and     *)
(* promise continuation of the single-threaded program is one action; the  *)
(* PM2 daemon, the log bus and the keyboard are the environment, whose     *)
(* answers are drawn from small sets.                                      *)
(***************************************************************************)
EXTENDS Integers, Sequences, FiniteSets, TLC

\* ------------------------------------------------------------------------
\* Bounds of the model
\* ------------------------------------------------------------------------
MaxProcs == 2      \* how many catalogue entries the daemon may report
MaxPolls == 1      \* un-awaited refreshProcesses calls in flight at once
MaxActs == 2       \* wrapAction invocations in flight at once
MaxLog == 1        \* lines kept of the log view
MaxSamples == 62   \* successful metrics samples followed
MaxUptimeSteps == 40   \* how far the uptime arguments reach, in steps of 977 s
MaxByteSteps == 40     \* how far the byte counts reach, in steps of 50331653

\* const HISTORY_LENGTH = 60
HISTORY_LENGTH == 60

\* ------------------------------------------------------------------------
\* Text: strings are looked up as character sequences so that
\* toLowerCase() and includes() are computed, not assumed.
\* ------------------------------------------------------------------------
Chars(s) ==
    CASE s = "" -> <<>>
      [] s = "web" -> <<"w", "e", "b">>
      [] s = "API" -> <<"A", "P", "I">>
      [] s = "unknown" -> <<"u", "n", "k", "n", "o", "w", "n">>
      [] s = "prod" -> <<"p", "r", "o", "d">>
      [] s = "default" -> <<"d", "e", "f", "a", "u", "l", "t">>
      [] s = "online" -> <<"o", "n", "l", "i", "n", "e">>
      [] s = "stopped" -> <<"s", "t", "o", "p", "p", "e", "d">>
      [] s = "we" -> <<"w", "e">>
      [] s = "P" -> <<"P">>
      [] s = "on" -> <<"o", "n">>

LowerChar(c) ==
    CASE c = "A" -> "a"
      [] c = "P" -> "p"
      [] c = "I" -> "i"
      [] OTHER -> c

toLowerCase(cs) == [i \in 1..Len(cs) |-> LowerChar(cs[i])]

includes(cs, q) ==
    \E i \in 1..(Len(cs) - Len(q) + 1) : SubSeq(cs, i, i + Len(q) - 1) = q

\* ------------------------------------------------------------------------
\* The daemon's process descriptions.  An optional field is a set with at
\* most one element ({} = undefined).  statuses: the values pm2_env.status
\* takes for that entry over time.
\* ------------------------------------------------------------------------
Catalogue ==
    << [pm_id |-> {0}, name |-> {"web"}, namespace |-> {"prod"},
        statuses |-> {"online", "stopped"}],
       [pm_id |-> {1}, name |-> {"API"}, namespace |-> {},
        statuses |-> {"stopped"}],
       [pm_id |-> {},  name |-> {},      namespace |-> {},
        statuses |-> {"online"}] >>

OrElse(opt, default) == IF opt = {} THEN default ELSE CHOOSE x \in opt : TRUE

\* PM2Client.listProcesses: the mapping of one ProcessDescription
ToManaged(d, st) ==
    [pmId |-> OrElse(d.pm_id, -1),
     name |-> OrElse(d.name, "unknown"),
     namespace |-> OrElse(d.namespace, "default"),
     status |-> st]

RECURSIVE ListOf(_, _)
ListOf(f, i) ==
    IF i > Len(Catalogue) THEN <<>>
    ELSE (IF f[i] = "absent" THEN <<>> ELSE <<ToManaged(Catalogue[i], f[i])>>)
         \o ListOf(f, i + 1)

\* What listProcesses may resolve with: the catalogue entries the daemon
\* currently holds, in the daemon's order, each with its current status.
RegistryLists ==
    { l \in { ListOf(f, 1) :
                f \in { g \in [1..Len(Catalogue) -> {"online", "stopped", "absent"}] :
                          \A i \in 1..Len(Catalogue) :
                              g[i] \in Catalogue[i].statuses \cup {"absent"} } } :
        Len(l) <= MaxProcs }

\* The process descriptions a log packet may carry.
EventProcs == [pm_id : {{}, {0}, {1}}, name : {{}, {"web"}, {"API"}}]

Queries == {"", "we", "P", "on"}

NoProc == [pmId |-> -2, name |-> "", namespace |-> "", status |-> ""]

\* ------------------------------------------------------------------------
\* State
\* ------------------------------------------------------------------------
VARIABLES
    connected,          \* PM2Client.connected
    startPc,            \* where App.start() stands
    exited,             \* process.exit(0) was reached
    processes,          \* App.processes
    filteredProcesses,  \* App.filteredProcesses
    selectedIndex,      \* App.selectedIndex
    viewMode,           \* App.viewMode
    searchQuery,        \* App.searchQuery
    searchMode,         \* App.searchMode (the search textbox is open)
    paused,             \* App.paused
    refreshTimer,       \* App.refreshTimer is set
    metricsPc,          \* where App.startMetricsLoop() stands
    busListening,       \* the log bus listeners are registered
    subscriptions,      \* how many launchBus subscriptions are live
    unsubscribeLogs,    \* App.unsubscribeLogs is set
    logBox,             \* lines handed to logBox.log
    lastLog,            \* what became of the latest log packet
    notification,       \* the notification box and its expiry timer
    polls,              \* refreshProcesses calls nobody awaits
    acts,               \* wrapAction invocations
    menu,               \* the open action menu's captured process
    prompt,             \* the open confirmation box
    answer,             \* what the latest confirmation box resolved with
    lastCall,           \* the latest request handed to the pm2 API
    cpuHistory,         \* App.cpuHistory
    memHistory,         \* App.memHistory
    sampled,            \* how many updateMetrics() calls got their readings
    lastSample,         \* how the latest updateMetrics() call's readings ended
    teardown,           \* the calls App.shutdown made, in order
    uptimeArg,          \* the argument handed to formatUptime
    uptimeText,         \* what formatUptime returned for it
    bytesArg,           \* the argument handed to formatBytes
    bytesText,          \* what formatBytes returned for it
    insightsArg,        \* the figures of the process handed to updateInsights
    insightsText,       \* the lines updateInsights wrote for them
    detailBox,          \* the process the detail panel describes
    insightsBox,        \* the process the insights panel describes
    actionsBox,         \* the name after 'Selected:' in the actions panel
    logLabel            \* the name in the log view's label

viewVars == <<processes, filteredProcesses, selectedIndex, viewMode, searchQuery, searchMode>>
lifeVars == <<connected, startPc, exited, paused, refreshTimer, metricsPc>>
logVars == <<busListening, subscriptions, unsubscribeLogs, logBox, lastLog>>
taskVars == <<polls, acts, menu, prompt>>
metricVars == <<cpuHistory, memHistory, sampled, lastSample>>
formatVars == <<uptimeArg, uptimeText, bytesArg, bytesText, insightsArg, insightsText>>
panelVars == <<detailBox, insightsBox, actionsBox, logLabel>>
vars == <<viewVars, lifeVars, logVars, taskVars, answer, lastCall, notification,
          metricVars, teardown, formatVars, panelVars>>

\* ------------------------------------------------------------------------
\* Requests to the pm2 API (PM2Client)
\* ------------------------------------------------------------------------
Call(op, pmId, name) == [op |-> op, pmId |-> pmId, name |-> name]
NoCall == Call("none", -2, "")
ConnectCall == Call("connect", -2, "")
DisconnectCall == Call("disconnect", -2, "")
ListCall == Call("list", -2, "")
BusCall == Call("launchBus", -2, "")
DeleteCall(pmId) == Call("delete", pmId, "")

\* startAll .. reloadAll: pm2.<op>("all")
BulkCall(kind) ==
    CASE kind = "startAll" -> Call("start", -2, "all")
      [] kind = "restartAll" -> Call("restart", -2, "all")
      [] kind = "stopAll" -> Call("stop", -2, "all")
      [] kind = "reloadAll" -> Call("reload", -2, "all")

\* Variant: the handlers read the selection when they run.
MenuCallOnSelection(kind, proc) ==
    LET procs == IF searchQuery # "" THEN filteredProcesses ELSE processes
        now == IF selectedIndex + 1 \in DOMAIN procs THEN procs[selectedIndex + 1] ELSE NoProc
    IN  CASE kind = "start" -> Call("start", -2, now.name)
          [] kind = "restart" -> Call("restart", now.pmId, "")
          [] kind = "stop" -> Call("stop", now.pmId, "")
          [] kind = "reload" -> Call("reload", now.pmId, "")
          [] kind = "delete" -> DeleteCall(now.pmId)

\* The handlers of the action menu: start goes by name, the others by pmId.
MenuCall(kind, proc) ==
    CASE kind = "start" -> Call("start", -2, proc.name)
      [] kind = "restart" -> Call("restart", proc.pmId, "")
      [] kind = "stop" -> Call("stop", proc.pmId, "")
      [] kind = "reload" -> Call("reload", proc.pmId, "")
      [] kind = "delete" -> DeleteCall(proc.pmId)

\* ------------------------------------------------------------------------
\* Helpers of App
\* ------------------------------------------------------------------------
\* Variant: the pending expiry timeout is not cancelled.
clearTimeoutMissing(pending) == pending

\* if (this.notificationTimer) clearTimeout(this.notificationTimer):
\* how many expiry timeouts stay pending
clearTimeout(pending) == 0

\* timer: the expiry timeouts pending; the call cancels the one it finds
\* and arms its own.
showNotification(message, type) ==
    [msg |-> message, type |-> type, visible |-> TRUE,
     timer |-> clearTimeout(notification.timer) + 1]

Hidden == [msg |-> "", type |-> "info", visible |-> FALSE, timer |-> 0]

MatchesMode(p, mode) ==
    CASE mode = "running" -> p.status = "online"
      [] mode = "stopped" -> p.status # "online"
      [] OTHER -> TRUE

\* Variant: the query is not lower-cased before the comparison.
MatchesQueryAsTyped(p, query) ==
    LET q == Chars(query) IN
        \/ includes(toLowerCase(Chars(p.name)), q)
        \/ includes(toLowerCase(Chars(p.namespace)), q)
        \/ includes(toLowerCase(Chars(p.status)), q)

MatchesQuery(p, query) ==
    LET q == toLowerCase(Chars(query)) IN
        \/ includes(toLowerCase(Chars(p.name)), q)
        \/ includes(toLowerCase(Chars(p.namespace)), q)
        \/ includes(toLowerCase(Chars(p.status)), q)

applyFilter(procs, mode, query) ==
    LET byMode == SelectSeq(procs, LAMBDA p : MatchesMode(p, mode)) IN
        IF query # "" THEN SelectSeq(byMode, LAMBDA p : MatchesQuery(p, query))
        ELSE byMode

\* searchQuery ? filteredProcesses : processes
ActiveList(query, filtered, procs) == IF query # "" THEN filtered ELSE procs

procsNow == ActiveList(searchQuery, filteredProcesses, processes)

getSelectedProcess ==
    IF selectedIndex + 1 \in DOMAIN procsNow THEN procsNow[selectedIndex + 1] ELSE NoProc

\* procs[index] of JavaScript: NoProc stands for undefined
SelectedOf(index, procs) ==
    IF index + 1 \in DOMAIN procs THEN procs[index + 1] ELSE NoProc

\* afterSelectionChange with proc = getSelectedProcess() after the write
\* to selectedIndex: label, detail and insights follow proc when there is
\* one and stay as they are otherwise.
afterSelectionChange(proc) ==
    /\ logLabel' = IF proc # NoProc THEN proc.name ELSE logLabel
    /\ detailBox' = IF proc # NoProc THEN proc ELSE detailBox
    /\ insightsBox' = IF proc # NoProc THEN proc ELSE insightsBox

\* updateActions: `Selected: ${proc.name}` or `none`
updateActions(proc) == IF proc # NoProc THEN proc.name ELSE ""

isSelectedProcess(pmId) == getSelectedProcess # NoProc /\ getSelectedProcess.pmId = pmId

Max(a, b) == IF a > b THEN a ELSE b
Min(a, b) == IF a < b THEN a ELSE b

Remove(seq, i) == SubSeq(seq, 1, i - 1) \o SubSeq(seq, i + 1, Len(seq))

\* A wrapAction invocation stands at
\*   connect  awaiting pm2.connect inside ensureConnected(); call is the
\*            request that follows and next the position it leads to
\*   op       awaiting the registry operation of a single or bulk action
\*   list     awaiting delete-all's own listProcesses()
\*   del      awaiting deleteProcess of the head of rest
\*   refresh  awaiting refreshProcesses(true)
Task(pc, call, next, rest) == [pc |-> pc, call |-> call, next |-> next, rest |-> rest]
NoTask == Task("idle", NoCall, "", <<>>)
NoPrompt == [kind |-> "none", proc |-> NoProc]
NoAnswer == [kind |-> "none", confirmed |-> FALSE]

Busy == { i \in 1..MaxActs : acts[i].pc # "idle" }
FreeSlots == (1..MaxActs) \ Busy
FreeSlot == CHOOSE i \in FreeSlots : \A j \in FreeSlots : i <= j

\* Keys reach the screen's handlers once start() has been called, while the
\* session lives and the search textbox does not hold the keyboard.
Alive == startPc # "new" /\ ~exited
KeysActive == Alive /\ ~searchMode

Init ==
    /\ connected = FALSE
    /\ startPc = "new"
    /\ exited = FALSE
    /\ processes = <<>>
    /\ filteredProcesses = <<>>
    /\ selectedIndex = 0
    /\ viewMode = "all"
    /\ searchQuery = ""
    /\ searchMode = FALSE
    /\ paused = FALSE
    /\ refreshTimer = FALSE
    /\ metricsPc = "idle"
    /\ busListening = FALSE
    /\ subscriptions = 0
    /\ unsubscribeLogs = FALSE
    /\ logBox = <<>>
    /\ lastLog = "none"
    /\ notification = Hidden
    /\ polls = <<>>
    /\ acts = [i \in 1..MaxActs |-> NoTask]
    /\ menu = NoProc
    /\ prompt = NoPrompt
    /\ answer = NoAnswer
    /\ lastCall = NoCall
    /\ cpuHistory = <<>>
    /\ memHistory = <<>>
    /\ sampled = 0
    /\ lastSample = "none"
    /\ teardown = <<>>
    /\ uptimeArg = {}
    /\ uptimeText = ""
    /\ bytesArg = {}
    /\ bytesText = ""
    /\ insightsArg = {}
    /\ insightsText = <<>>
    /\ detailBox = NoProc
    /\ insightsBox = NoProc
    /\ actionsBox = ""
    /\ logLabel = ""

\* ------------------------------------------------------------------------
\* App.start
\* ------------------------------------------------------------------------
Start ==
    /\ startPc = "new" /\ ~exited
    /\ notification' = showNotification("connecting", "info")
    /\ startPc' = "connecting"
    /\ lastCall' = ConnectCall
    /\ UNCHANGED <<answer, metricVars, teardown, formatVars, panelVars, viewVars, logVars, taskVars, connected, exited, paused, refreshTimer, metricsPc>>

StartConnectOk ==
    /\ startPc = "connecting" /\ ~exited
    /\ connected' = TRUE
    /\ notification' = showNotification("connected", "success")
    /\ startPc' = "refreshing"
    /\ lastCall' = ListCall
    /\ UNCHANGED <<answer, metricVars, teardown, formatVars, panelVars, viewVars, logVars, taskVars, exited, paused, refreshTimer, metricsPc>>

StartConnectFail ==
    /\ startPc = "connecting" /\ ~exited
    /\ notification' = showNotification("connectFailed", "error")
    /\ startPc' = "connectFailed"
    /\ UNCHANGED <<answer, metricVars, teardown, formatVars, panelVars, viewVars, logVars, taskVars, lastCall, connected, exited, paused,
                   refreshTimer, metricsPc>>

\* Variant: the projection is recomputed by a later handler.
RefreshApplyProjectingLater(list) ==
    /\ processes' = list
    /\ detailBox' = SelectedOf(selectedIndex, ActiveList(searchQuery, filteredProcesses, list))
    /\ insightsBox' = detailBox'
    /\ UNCHANGED <<filteredProcesses, selectedIndex, viewMode, searchQuery, searchMode, actionsBox, logLabel>>

\* The success path of refreshProcesses: the list replaces processes and
\* the projection is recomputed; selectedIndex is not written.
RefreshApply(list) ==
    /\ processes' = list
    /\ filteredProcesses' = applyFilter(list, viewMode, searchQuery)
    /\ detailBox' = SelectedOf(selectedIndex, ActiveList(searchQuery, filteredProcesses', list))
    /\ insightsBox' = detailBox'
    /\ UNCHANGED <<selectedIndex, viewMode, searchQuery, searchMode, actionsBox, logLabel>>

\* Variant: the failure path clears the list before reporting.
RefreshFailedClearing ==
    /\ notification' = showNotification("refreshError", "error")
    /\ processes' = <<>>
    /\ UNCHANGED <<filteredProcesses, selectedIndex, viewMode, searchQuery, searchMode>>

\* catch (error) { this.showNotification(`Error refreshing: ...`, "error") }
RefreshFailed ==
    /\ notification' = showNotification("refreshError", "error")
    /\ UNCHANGED viewVars

StartListOk ==
    /\ startPc = "refreshing" /\ ~exited
    /\ \E list \in RegistryLists : RefreshApply(list)
    /\ startPc' = "subscribing"
    /\ lastCall' = BusCall
    /\ UNCHANGED <<answer, metricVars, teardown, formatVars, logVars, taskVars, notification, connected, exited, paused,
                   refreshTimer, metricsPc>>

StartListFail ==
    /\ startPc = "refreshing" /\ ~exited
    /\ RefreshFailed
    /\ startPc' = "subscribing"
    /\ lastCall' = BusCall
    /\ UNCHANGED <<answer, metricVars, teardown, formatVars, panelVars, logVars, taskVars, connected, exited, paused, refreshTimer, metricsPc>>

stopAutoRefresh(timer) == FALSE
startAutoRefresh(timer) == TRUE

\* Variant: a bus is launched for each of the two streams.
launchBusPerStream(live) == live + 2

\* launchBus resolved: one more bus carries this call's two handlers.
launchBus(live) == live + 1

StartBusOk ==
    /\ startPc = "subscribing" /\ ~exited
    /\ busListening' = TRUE
    /\ subscriptions' = launchBus(subscriptions)
    /\ unsubscribeLogs' = TRUE
    /\ refreshTimer' = startAutoRefresh(refreshTimer)
    /\ metricsPc' = "first"
    /\ startPc' = "running"
    /\ UNCHANGED <<answer, metricVars, teardown, formatVars, panelVars, viewVars, taskVars, lastCall, notification, logBox, lastLog, connected, exited, paused>>

\* launchBus rejected: start() rejects before any timer is started.
StartBusFail ==
    /\ startPc = "subscribing" /\ ~exited
    /\ startPc' = "busFailed"
    /\ UNCHANGED <<answer, metricVars, teardown, formatVars, panelVars, viewVars, logVars, taskVars, lastCall, notification, connected, exited,
                   paused, refreshTimer, metricsPc>>

\* The readings of the n-th successful sample:
\* Math.round(cpuLoad.currentLoad) and Math.round(mem.used / mem.total * 100).
CpuSample(n) == (n * 37) % 101
MemSample(n) == (n * 11 + 3) % 101

\* Variant: the newest sample is dropped on overflow.
trackHistoryDropNewest(cpuH, memH, cpu, mem) ==
    IF Len(cpuH) + 1 > HISTORY_LENGTH THEN <<cpuH, memH>>
    ELSE <<Append(cpuH, cpu), Append(memH, mem)>>

\* push both, then shift both when cpuHistory is longer than HISTORY_LENGTH
trackHistory(cpuH, memH, cpu, mem) ==
    LET pushedCpu == Append(cpuH, cpu)
        pushedMem == Append(memH, mem)
    IN  IF Len(pushedCpu) > HISTORY_LENGTH
        THEN <<Tail(pushedCpu), Tail(pushedMem)>>
        ELSE <<pushedCpu, pushedMem>>

\* How Promise.all([si.currentLoad(), si.mem()]) may end.
Readings == {"both", "cpuRejected", "memRejected"}

\* Variant: the readings are awaited one after the other and the CPU
\* sample is pushed before the memory reading is awaited.
updateMetricsPushingCpuFirst(readings) ==
    /\ lastSample' = readings
    /\ IF readings = "both"
       THEN /\ sampled < MaxSamples
            /\ sampled' = sampled + 1
            /\ cpuHistory' = trackHistory(cpuHistory, memHistory,
                                          CpuSample(sampled'), MemSample(sampled'))[1]
            /\ memHistory' = trackHistory(cpuHistory, memHistory,
                                          CpuSample(sampled'), MemSample(sampled'))[2]
       ELSE IF readings = "memRejected"
            THEN /\ cpuHistory' = Append(cpuHistory, CpuSample(sampled + 1))
                 /\ UNCHANGED <<memHistory, sampled>>
            ELSE UNCHANGED <<cpuHistory, memHistory, sampled>>

\* updateMetrics once both readings arrived or one of them was rejected
\* (Promise.all rejects before trackHistory is reached; the catch is empty).
updateMetrics(readings) ==
    /\ lastSample' = readings
    /\ IF readings = "both"
       THEN /\ sampled < MaxSamples
            /\ sampled' = sampled + 1
            /\ cpuHistory' = trackHistory(cpuHistory, memHistory,
                                          CpuSample(sampled'), MemSample(sampled'))[1]
            /\ memHistory' = trackHistory(cpuHistory, memHistory,
                                          CpuSample(sampled'), MemSample(sampled'))[2]
       ELSE UNCHANGED <<cpuHistory, memHistory, sampled>>

\* startMetricsLoop sets statsTimer once its first updateMetrics() returns,
\* whether the sample succeeded or not.
MetricsFirstDone ==
    /\ metricsPc = "first" /\ ~exited
    /\ \E readings \in Readings : updateMetrics(readings)
    /\ metricsPc' = "looping"
    /\ UNCHANGED <<answer, teardown, formatVars, panelVars, viewVars, logVars, taskVars, lastCall, notification, connected, startPc,
                   exited, paused, refreshTimer>>

\* The statsTimer callback's updateMetrics() reaching its end.
MetricsTick ==
    /\ Alive /\ metricsPc = "looping"
    /\ \E readings \in Readings : updateMetrics(readings)
    /\ UNCHANGED <<answer, teardown, formatVars, panelVars, viewVars, lifeVars, logVars, taskVars, lastCall, notification>>

\* ------------------------------------------------------------------------
\* App.refreshProcesses, called by the refresh timer and by F5 / R
\* ------------------------------------------------------------------------
\* Variant: the pause check is missing.
RefreshNeverSkipped(isPaused, force) == FALSE

\* if (this.paused && !force) return;
RefreshSkipped(isPaused, force) == isPaused /\ ~force

\* listProcesses: await ensureConnected(), then pm2.list.
\* before: the wrapAction invocations whose registry operation resolved,
\* and whose own list request was issued, while this request was pending;
\* overtaken: the list of one of them has been applied since.
IssuePoll(force) ==
    /\ Len(polls) < MaxPolls
    /\ polls' = Append(polls, [phase |-> IF connected THEN "list" ELSE "connect",
                               force |-> force, before |-> {}, overtaken |-> FALSE])
    /\ lastCall' = IF connected THEN ListCall ELSE ConnectCall

\* Variant: the timer callback returns while a confirmation is open.
RefreshTickAfterAnswer ==
    /\ Alive /\ refreshTimer /\ prompt = NoPrompt
    /\ IF RefreshSkipped(paused, FALSE)
       THEN UNCHANGED <<polls, lastCall>>
       ELSE IssuePoll(FALSE)
    /\ UNCHANGED <<answer, metricVars, teardown, formatVars, panelVars, viewVars, lifeVars, logVars, notification, acts, menu, prompt>>

RefreshTick ==
    /\ Alive /\ refreshTimer
    /\ IF RefreshSkipped(paused, FALSE)
       THEN UNCHANGED <<polls, lastCall>>
       ELSE IssuePoll(FALSE)
    /\ UNCHANGED <<answer, metricVars, teardown, formatVars, panelVars, viewVars, lifeVars, logVars, notification, acts, menu, prompt>>

ForceRefreshKey ==
    /\ KeysActive
    /\ notification' = showNotification("refreshing", "info")
    /\ IssuePoll(TRUE)
    /\ UNCHANGED <<answer, metricVars, teardown, formatVars, panelVars, viewVars, lifeVars, logVars, acts, menu, prompt>>

PollConnectOk(i) ==
    /\ ~exited /\ polls[i].phase = "connect"
    /\ connected' = TRUE
    /\ polls' = [polls EXCEPT ![i].phase = "list"]
    /\ lastCall' = ListCall
    /\ UNCHANGED <<answer, metricVars, teardown, formatVars, panelVars, viewVars, logVars, notification, acts, menu, prompt,
                   startPc, exited, paused, refreshTimer, metricsPc>>

PollConnectFail(i) ==
    /\ ~exited /\ polls[i].phase = "connect"
    /\ RefreshFailed
    /\ polls' = Remove(polls, i)
    /\ UNCHANGED <<answer, metricVars, teardown, formatVars, panelVars, lifeVars, logVars, lastCall, acts, menu, prompt>>

PollListOk(i) ==
    /\ ~exited /\ polls[i].phase = "list"
    /\ \E list \in RegistryLists : RefreshApply(list)
    /\ polls' = Remove(polls, i)
    /\ UNCHANGED <<answer, metricVars, teardown, formatVars, lifeVars, logVars, lastCall, notification, acts, menu, prompt>>

\* Variant: the failure path also clears the interval.
PollListFailStoppingTimer(i) ==
    /\ ~exited /\ polls[i].phase = "list"
    /\ RefreshFailed
    /\ polls' = Remove(polls, i)
    /\ refreshTimer' = stopAutoRefresh(refreshTimer)
    /\ UNCHANGED <<answer, metricVars, teardown, formatVars, panelVars, logVars, lastCall, acts, menu, prompt,
                   connected, startPc, exited, paused, metricsPc>>

PollListFail(i) ==
    /\ ~exited /\ polls[i].phase = "list"
    /\ RefreshFailed
    /\ polls' = Remove(polls, i)
    /\ UNCHANGED <<answer, metricVars, teardown, formatVars, panelVars, lifeVars, logVars, lastCall, acts, menu, prompt>>

\* ------------------------------------------------------------------------
\* Pause / resume (space)
\* ------------------------------------------------------------------------
TogglePaused(isPaused) == ~isPaused

TimerAfterToggle(nowPaused, timer) ==
    IF nowPaused THEN stopAutoRefresh(timer) ELSE startAutoRefresh(timer)

\* Variant: pausing also clears the metrics timer.
TogglePauseStoppingMetrics ==
    /\ KeysActive
    /\ paused' = TogglePaused(paused)
    /\ refreshTimer' = TimerAfterToggle(paused', refreshTimer)
    /\ metricsPc' = IF paused' THEN "idle" ELSE "looping"
    /\ notification' = IF paused' THEN showNotification("paused", "warning")
                       ELSE showNotification("resumed", "success")
    /\ UNCHANGED <<answer, metricVars, teardown, formatVars, panelVars, viewVars, logVars, taskVars, lastCall,
                   connected, startPc, exited>>

TogglePause ==
    /\ KeysActive
    /\ paused' = TogglePaused(paused)
    /\ refreshTimer' = TimerAfterToggle(paused', refreshTimer)
    /\ notification' = IF paused' THEN showNotification("paused", "warning")
                       ELSE showNotification("resumed", "success")
    /\ UNCHANGED <<answer, metricVars, teardown, formatVars, panelVars, viewVars, logVars, taskVars, lastCall, connected, startPc, exited, metricsPc>>

\* ------------------------------------------------------------------------
\* View mode, search and selection
\* ------------------------------------------------------------------------
SetViewMode(mode) ==
    /\ KeysActive
    /\ viewMode' = mode
    /\ filteredProcesses' = applyFilter(processes, mode, searchQuery)
    /\ notification' = showNotification("view", "info")
    /\ UNCHANGED <<answer, metricVars, teardown, formatVars, panelVars, processes, selectedIndex, searchQuery, searchMode,
                   lifeVars, logVars, taskVars, lastCall>>

StartSearch ==
    /\ KeysActive
    /\ searchMode' = TRUE
    /\ searchQuery' = ""
    /\ UNCHANGED <<answer, metricVars, teardown, formatVars, panelVars, processes, filteredProcesses, selectedIndex, viewMode,
                   lifeVars, logVars, taskVars, lastCall, notification>>

SearchSubmit(value) ==
    /\ Alive /\ searchMode
    /\ searchQuery' = value
    /\ filteredProcesses' = applyFilter(processes, viewMode, value)
    /\ searchMode' = FALSE
    /\ UNCHANGED <<answer, metricVars, teardown, formatVars, panelVars, processes, selectedIndex, viewMode,
                   lifeVars, logVars, taskVars, lastCall, notification>>

SearchBoxCancel ==
    /\ Alive /\ searchMode
    /\ searchMode' = FALSE
    /\ UNCHANGED <<answer, metricVars, teardown, formatVars, panelVars, processes, filteredProcesses, selectedIndex, viewMode, searchQuery,
                   lifeVars, logVars, taskVars, lastCall, notification>>

cancelSearch ==
    /\ KeysActive
    /\ searchMode' = FALSE
    /\ searchQuery' = ""
    /\ filteredProcesses' = applyFilter(processes, viewMode, "")
    /\ UNCHANGED <<answer, metricVars, teardown, formatVars, panelVars, processes, selectedIndex, viewMode,
                   lifeVars, logVars, taskVars, lastCall, notification>>

\* Variant: Math.max(0, ...) is missing.
changeSelectionUnclampedBelow(offset) ==
    /\ KeysActive
    /\ selectedIndex' =
         IF Len(procsNow) = 0 THEN selectedIndex
         ELSE Min(selectedIndex + offset, Len(procsNow) - 1)
    /\ IF Len(procsNow) = 0 THEN UNCHANGED <<logLabel, detailBox, insightsBox>>
       ELSE afterSelectionChange(SelectedOf(selectedIndex', procsNow))
    /\ UNCHANGED <<answer, metricVars, teardown, formatVars, actionsBox, processes, filteredProcesses, viewMode, searchQuery, searchMode,
                   lifeVars, logVars, taskVars, lastCall, notification>>

changeSelection(offset) ==
    /\ KeysActive
    /\ selectedIndex' =
         IF Len(procsNow) = 0 THEN selectedIndex
         ELSE Max(0, Min(selectedIndex + offset, Len(procsNow) - 1))
    /\ IF Len(procsNow) = 0 THEN UNCHANGED <<logLabel, detailBox, insightsBox>>
       ELSE afterSelectionChange(SelectedOf(selectedIndex', procsNow))
    /\ UNCHANGED <<answer, metricVars, teardown, formatVars, actionsBox, processes, filteredProcesses, viewMode, searchQuery, searchMode,
                   lifeVars, logVars, taskVars, lastCall, notification>>

jumpToFirst ==
    /\ KeysActive
    /\ selectedIndex' = 0
    /\ afterSelectionChange(SelectedOf(selectedIndex', procsNow))
    /\ UNCHANGED <<answer, metricVars, teardown, formatVars, actionsBox, processes, filteredProcesses, viewMode, searchQuery, searchMode,
                   lifeVars, logVars, taskVars, lastCall, notification>>

jumpToLast ==
    /\ KeysActive
    /\ selectedIndex' = Max(0, Len(procsNow) - 1)
    /\ afterSelectionChange(SelectedOf(selectedIndex', procsNow))
    /\ UNCHANGED <<answer, metricVars, teardown, formatVars, actionsBox, processes, filteredProcesses, viewMode, searchQuery, searchMode,
                   lifeVars, logVars, taskVars, lastCall, notification>>

\* rows.on("select", (_item, index) => { this.selectedIndex = index; ... }):
\* the table reports one of its rows as selected.
RowSelect(index) ==
    /\ KeysActive
    /\ index \in 0..(Len(procsNow) - 1)
    /\ selectedIndex' = index
    /\ afterSelectionChange(SelectedOf(selectedIndex', procsNow))
    /\ actionsBox' = updateActions(SelectedOf(selectedIndex', procsNow))
    /\ UNCHANGED <<answer, metricVars, teardown, formatVars, processes, filteredProcesses, viewMode, searchQuery, searchMode,
                   lifeVars, logVars, taskVars, lastCall, notification>>

\* ------------------------------------------------------------------------
\* App.wrapAction and the registry operations it awaits
\* ------------------------------------------------------------------------
BulkKinds == {"startAll", "restartAll", "stopAll", "reloadAll"}
MenuKinds == <<"start", "restart", "stop", "reload", "delete", "logs">>
\* Variant: delete carries no confirm flag.
NeedsConfirmStopOnly(kind) == kind = "stop"

NeedsConfirm(kind) == kind \in {"stop", "delete"}

\* try { showNotification(`... ${description}...`); await action(); ...
\* call is the first request of action(), pc the position awaiting it.
wrapAction(message, call, pc) ==
    /\ FreeSlots # {}
    /\ notification' = showNotification(message, "info")
    /\ acts' = [acts EXCEPT ![FreeSlot] =
                  IF connected THEN Task(pc, NoCall, "", <<>>)
                  ELSE Task("connect", call, pc, <<>>)]
    /\ lastCall' = IF connected THEN call ELSE ConnectCall

BulkKey(kind) ==
    /\ KeysActive
    /\ wrapAction("progress", BulkCall(kind), "op")
    /\ UNCHANGED <<answer, metricVars, teardown, formatVars, panelVars, viewVars, lifeVars, logVars, polls, menu, prompt>>

ActConnectOk(i) ==
    /\ ~exited /\ acts[i].pc = "connect"
    /\ connected' = TRUE
    /\ acts' = [acts EXCEPT ![i] = Task(acts[i].next, NoCall, "", <<>>)]
    /\ lastCall' = acts[i].call
    /\ UNCHANGED <<answer, metricVars, teardown, formatVars, panelVars, viewVars, logVars, notification, polls, menu, prompt,
                   startPc, exited, paused, refreshTimer, metricsPc>>

\* await action() rejected: catch (error) { showNotification(`Failed ...`) }
OpRejected(i) ==
    /\ notification' = showNotification("failed", "error")
    /\ acts' = [acts EXCEPT ![i] = NoTask]

\* refreshProcesses(true) returned, with or without an error of its own:
\* showNotification(`... completed`, "success")
ActionCompleted(i) ==
    /\ notification' = showNotification("completed", "success")
    /\ acts' = [acts EXCEPT ![i] = NoTask]

\* The rejection reaches wrapAction's catch, unless the pending request is
\* the refresh's own, whose catch absorbs it.
ActConnectFail(i) ==
    /\ ~exited /\ acts[i].pc = "connect"
    /\ IF acts[i].next = "refresh" THEN ActionCompleted(i) ELSE OpRejected(i)
    /\ UNCHANGED <<answer, metricVars, teardown, formatVars, panelVars, viewVars, lifeVars, logVars, lastCall, polls, menu, prompt>>

\* What wrapAction does once await action() resolved.
AfterOpResolved(task) == [task EXCEPT !.pc = "refresh", !.rest = <<>>]

\* The pending list requests once invocation i issued its refreshProcesses(true):
\* all of them were issued before it.
IssuedBefore(pending, i) ==
    [k \in DOMAIN pending |-> [pending[k] EXCEPT !.before = @ \cup {i}]]

\* The pending list requests once the list of invocation i was applied ...
AppliedBefore(pending, i) ==
    [k \in DOMAIN pending |->
        [pending[k] EXCEPT !.overtaken = @ \/ i \in pending[k].before,
                           !.before = @ \ {i}]]

\* ... or was lost with its request.
LostBefore(pending, i) ==
    [k \in DOMAIN pending |-> [pending[k] EXCEPT !.before = @ \ {i}]]

ActOpOk(i) ==
    /\ ~exited /\ acts[i].pc = "op"
    /\ acts' = [acts EXCEPT ![i] = AfterOpResolved(acts[i])]
    /\ polls' = IssuedBefore(polls, i)
    /\ lastCall' = ListCall
    /\ UNCHANGED <<answer, metricVars, teardown, formatVars, panelVars, viewVars, lifeVars, logVars, notification, menu, prompt>>

ActOpFail(i) ==
    /\ ~exited /\ acts[i].pc = "op"
    /\ OpRejected(i)
    /\ UNCHANGED <<answer, metricVars, teardown, formatVars, panelVars, viewVars, lifeVars, logVars, lastCall, polls, menu, prompt>>

ActRefreshOk(i) ==
    /\ ~exited /\ acts[i].pc = "refresh"
    /\ \E list \in RegistryLists : RefreshApply(list)
    /\ ActionCompleted(i)
    /\ polls' = AppliedBefore(polls, i)
    /\ UNCHANGED <<answer, metricVars, teardown, formatVars, lifeVars, logVars, lastCall, menu, prompt>>

\* Variant: the refresh's rejection reaches wrapAction's catch.
ActRefreshFailReported(i) ==
    /\ ~exited /\ acts[i].pc = "refresh"
    /\ UNCHANGED viewVars
    /\ OpRejected(i)
    /\ polls' = LostBefore(polls, i)
    /\ UNCHANGED <<answer, metricVars, teardown, formatVars, panelVars, lifeVars, logVars, lastCall, menu, prompt>>

ActRefreshFail(i) ==
    /\ ~exited /\ acts[i].pc = "refresh"
    /\ UNCHANGED viewVars
    /\ ActionCompleted(i)
    /\ polls' = LostBefore(polls, i)
    /\ UNCHANGED <<answer, metricVars, teardown, formatVars, panelVars, lifeVars, logVars, lastCall, menu, prompt>>

\* ------------------------------------------------------------------------
\* Delete all ('d'): const procs = await listProcesses();
\*                   for (const proc of procs) await deleteProcess(proc.pmId)
\* ------------------------------------------------------------------------
PmIds(list) == [k \in 1..Len(list) |-> list[k].pmId]

\* The loop with targets ids (not yet deleted): the next delete, or the
\* end of action().
DeleteLoop(task, ids) ==
    IF ids = <<>> THEN AfterOpResolved(task)
    ELSE [task EXCEPT !.pc = "del", !.rest = ids]

CallOf(task) == IF task.pc = "del" THEN DeleteCall(Head(task.rest)) ELSE ListCall

ActDeleteListOk(i) ==
    /\ ~exited /\ acts[i].pc = "list"
    /\ \E list \in RegistryLists :
         acts' = [acts EXCEPT ![i] = DeleteLoop(acts[i], PmIds(list))]
    /\ polls' = IF acts'[i].pc = "refresh" THEN IssuedBefore(polls, i) ELSE polls
    /\ lastCall' = CallOf(acts'[i])
    /\ UNCHANGED <<answer, metricVars, teardown, formatVars, panelVars, viewVars, lifeVars, logVars, notification, menu, prompt>>

ActDeleteListFail(i) ==
    /\ ~exited /\ acts[i].pc = "list"
    /\ OpRejected(i)
    /\ UNCHANGED <<answer, metricVars, teardown, formatVars, panelVars, viewVars, lifeVars, logVars, lastCall, polls, menu, prompt>>

ActDeleteOk(i) ==
    /\ ~exited /\ acts[i].pc = "del"
    /\ acts' = [acts EXCEPT ![i] = DeleteLoop(acts[i], Tail(acts[i].rest))]
    /\ polls' = IF acts'[i].pc = "refresh" THEN IssuedBefore(polls, i) ELSE polls
    /\ lastCall' = CallOf(acts'[i])
    /\ UNCHANGED <<answer, metricVars, teardown, formatVars, panelVars, viewVars, lifeVars, logVars, notification, menu, prompt>>

\* A rejected deleteProcess leaves the for loop through wrapAction's catch.
ActDeleteFail(i) ==
    /\ ~exited /\ acts[i].pc = "del"
    /\ OpRejected(i)
    /\ UNCHANGED <<answer, metricVars, teardown, formatVars, panelVars, viewVars, lifeVars, logVars, lastCall, polls, menu, prompt>>

\* ------------------------------------------------------------------------
\* Confirmation box and action menu
\* ------------------------------------------------------------------------
ConfirmKeys == {"y", "Y", "n", "N", "escape", "q"}

\* Variant: only n / N cancel.
ConfirmedUnlessN(key) == key \notin {"n", "N"}

\* confirmBox.key(["y", "Y"], () => cleanup(true)); the other keys: false
Confirmed(key) == key \in {"y", "Y"}

DeleteAllKey ==
    /\ KeysActive /\ prompt = NoPrompt
    /\ prompt' = [kind |-> "deleteAll", proc |-> NoProc]
    /\ UNCHANGED <<answer, metricVars, teardown, formatVars, panelVars, viewVars, lifeVars, logVars, lastCall, notification, polls, acts, menu>>

\* Variant: the menu's `if (!confirmed) return` is missing.
AfterConfirmUnchecked(confirmed, kind, proc) ==
    IF confirmed \/ kind # "deleteAll"
    THEN IF kind = "deleteAll" THEN wrapAction("progress", ListCall, "list")
         ELSE wrapAction("progress", MenuCall(kind, proc), "op")
    ELSE UNCHANGED <<notification, acts, lastCall>>

\* What follows the confirmation box once its promise resolved.
AfterConfirm(confirmed, kind, proc) ==
    IF confirmed
    THEN IF kind = "deleteAll" THEN wrapAction("progress", ListCall, "list")
         ELSE wrapAction("progress", MenuCall(kind, proc), "op")
    ELSE UNCHANGED <<notification, acts, lastCall>>

ConfirmKey(key) ==
    /\ KeysActive /\ prompt # NoPrompt
    /\ prompt' = NoPrompt
    /\ answer' = [kind |-> prompt.kind, confirmed |-> Confirmed(key)]
    /\ AfterConfirm(Confirmed(key), prompt.kind, prompt.proc)
    /\ UNCHANGED <<metricVars, teardown, formatVars, panelVars, viewVars, lifeVars, logVars, polls, menu>>

openActionMenu ==
    /\ KeysActive /\ menu = NoProc
    /\ getSelectedProcess # NoProc
    /\ menu' = getSelectedProcess
    /\ UNCHANGED <<answer, metricVars, teardown, formatVars, panelVars, viewVars, lifeVars, logVars, lastCall, notification, polls, acts, prompt>>

MenuSelect(index) ==
    /\ KeysActive /\ menu # NoProc
    /\ menu' = NoProc
    /\ IF NeedsConfirm(MenuKinds[index])
       THEN /\ prompt = NoPrompt
            /\ prompt' = [kind |-> MenuKinds[index], proc |-> menu]
            /\ UNCHANGED <<notification, acts, lastCall>>
       ELSE /\ IF MenuKinds[index] = "logs"
               THEN wrapAction("logsFor", ListCall, "refresh")
               ELSE wrapAction("progress", MenuCall(MenuKinds[index], menu), "op")
            /\ UNCHANGED prompt
    /\ UNCHANGED <<answer, metricVars, teardown, formatVars, panelVars, viewVars, lifeVars, logVars, polls>>

MenuCancel ==
    /\ KeysActive /\ menu # NoProc
    /\ menu' = NoProc
    /\ UNCHANGED <<answer, metricVars, teardown, formatVars, panelVars, viewVars, lifeVars, logVars, lastCall, notification, polls, acts, prompt>>

\* ------------------------------------------------------------------------
\* Log bus callbacks (subscribeToLogs)
\* ------------------------------------------------------------------------
\* Variant: every packet is shown while some process is selected.
DisplayedWhenAnySelected(proc) == getSelectedProcess # NoProc

\* Variant: a missing selection compares as pmId -1.
DisplayedDefaulting(proc) ==
    (IF getSelectedProcess # NoProc THEN getSelectedProcess.pmId ELSE -1)
        = OrElse(proc.pm_id, -1)

\* const pmId = proc.pm_id ?? -1; if (this.isSelectedProcess(pmId)) ...
Displayed(proc) == isSelectedProcess(OrElse(proc.pm_id, -1))

LogLine(isError, proc) == [name |-> OrElse(proc.name, "unknown"), isError |-> isError]

LogEvent(isError, proc) ==
    /\ Alive /\ busListening
    /\ IF Displayed(proc)
       THEN /\ Len(logBox) < MaxLog
            /\ logBox' = Append(logBox, LogLine(isError, proc))
            /\ lastLog' = "shown"
       ELSE /\ UNCHANGED logBox
            /\ lastLog' = "ignored"
    /\ UNCHANGED <<answer, metricVars, teardown, formatVars, panelVars, viewVars, lifeVars, taskVars, lastCall, notification,
                   busListening, subscriptions, unsubscribeLogs>>

\* ------------------------------------------------------------------------
\* Notification expiry and shutdown
\* ------------------------------------------------------------------------
NotificationExpire ==
    /\ Alive /\ notification.timer > 0
    /\ notification' = [notification EXCEPT !.visible = FALSE, !.timer = @ - 1]
    /\ UNCHANGED <<answer, metricVars, teardown, formatVars, panelVars, viewVars, lifeVars, logVars, taskVars, lastCall>>

\* Variant: the registry is disconnected first.
ShutdownCallsDisconnectFirst(timerSet, unsubSet, isConnected) ==
    (IF isConnected THEN <<"pm2.disconnect">> ELSE <<>>)
    \o (IF timerSet THEN <<"clearInterval(refreshTimer)">> ELSE <<>>)
    \o (IF unsubSet THEN <<"unsubscribeLogs">> ELSE <<>>)
    \o <<"clearInterval(statsTimer)", "process.exit">>

\* The calls of shutdown() in program order: stopAutoRefresh clears the
\* timer it finds, unsubscribeLogs is called when set, clearInterval is
\* handed statsTimer, disconnect() reaches pm2 when connected.
ShutdownCalls(timerSet, unsubSet, isConnected) ==
    (IF timerSet THEN <<"clearInterval(refreshTimer)">> ELSE <<>>)
    \o (IF unsubSet THEN <<"unsubscribeLogs">> ELSE <<>>)
    \o <<"clearInterval(statsTimer)">>
    \o (IF isConnected THEN <<"pm2.disconnect">> ELSE <<>>)
    \o <<"process.exit">>

shutdown ==
    /\ KeysActive
    /\ notification' = showNotification("shutdown", "info")
    /\ teardown' = teardown \o ShutdownCalls(refreshTimer, unsubscribeLogs, connected)
    /\ refreshTimer' = stopAutoRefresh(refreshTimer)
    /\ busListening' = IF unsubscribeLogs THEN FALSE ELSE busListening
    /\ subscriptions' = IF unsubscribeLogs THEN subscriptions - 1 ELSE subscriptions
    /\ unsubscribeLogs' = FALSE
    /\ metricsPc' = IF metricsPc = "looping" THEN "idle" ELSE metricsPc
    /\ lastCall' = IF connected THEN DisconnectCall ELSE lastCall
    /\ connected' = FALSE
    /\ exited' = TRUE
    /\ UNCHANGED <<answer, metricVars, formatVars, panelVars, viewVars, taskVars, logBox, lastLog, startPc, paused>>

\* ------------------------------------------------------------------------
\* utils/format.ts
\* ------------------------------------------------------------------------
\* export function formatUptime(ms?: number): string
\* ms is {} for undefined and {n} for the number n.
formatUptime(ms) ==
    IF ms = {} THEN "-"
    ELSE LET n == CHOOSE x \in ms : TRUE IN
         IF n = 0 \/ n < 0 THEN "-"
         ELSE LET totalSeconds == n \div 1000
                  hours == totalSeconds \div 3600
                  minutes == (totalSeconds % 3600) \div 60
                  seconds == totalSeconds % 60
              IN  IF hours > 0 THEN ToString(hours) \o "h " \o ToString(minutes) \o "m"
                  ELSE IF minutes > 0
                       THEN ToString(minutes) \o "m " \o ToString(seconds) \o "s"
                       ELSE ToString(seconds) \o "s"

\* Uptimes handed to formatUptime by renderProcessTable: undefined, a
\* negative difference, and whole milliseconds around the second, minute
\* and hour boundaries and further on.
UptimeSeconds ==
    {0, 1, 5, 59, 60, 61, 65, 119, 120, 599, 3599, 3600, 3601, 3659, 3660,
     7199, 7200, 7384, 86399, 86400, 90061}
       \cup { k * 977 : k \in 0..MaxUptimeSteps }

UptimeArgs ==
    {{}, {-1}} \cup { {sec * 1000 + d} : sec \in UptimeSeconds, d \in {0, 1, 999} }

\* A table cell is rendered: formatUptime(p.uptime).
RenderUptime(ms) ==
    /\ Alive
    /\ uptimeArg' = ms
    /\ uptimeText' = formatUptime(ms)
    /\ UNCHANGED <<answer, metricVars, teardown, viewVars, lifeVars, logVars, taskVars, lastCall, notification,
                   bytesArg, bytesText, insightsArg, insightsText, panelVars>>

\* 1024 ** unitIndex for the units B, KB, MB, GB
units == <<"B", "KB", "MB", "GB">>
Pow1024(unitIndex) ==
    CASE unitIndex = 0 -> 1
      [] unitIndex = 1 -> 1024
      [] unitIndex = 2 -> 1048576
      [] unitIndex = 3 -> 1073741824

\* while (current >= 1024 && unitIndex < units.length - 1)
\*     { current /= 1024; unitIndex += 1 }
\* current is bytes / Pow1024(unitIndex); the result is the final unitIndex.
RECURSIVE UnitIndexFrom(_, _)
UnitIndexFrom(bytes, unitIndex) ==
    IF bytes \div Pow1024(unitIndex) >= 1024 /\ unitIndex < Len(units) - 1
    THEN UnitIndexFrom(bytes, unitIndex + 1)
    ELSE unitIndex

\* floor(10 * r / den + 1/2) for 0 <= r < den, den a power of 1024; for
\* den = 1024 ** 3 numerator and denominator are divided by 1024 first so
\* that the product stays within 32 bits (the quotient is the same).
HalfUpTenths(r, den) ==
    IF den = 1 THEN 0
    ELSE IF den < Pow1024(3) THEN (10 * r + den \div 2) \div den
    ELSE (10 * (r \div 1024) + (10 * (r % 1024)) \div 1024 + den \div 2048)
             \div (den \div 1024)

\* Number.prototype.toFixed(digits) of num / den, digits 0 or 1: the
\* nearest decimal with that many digits, the larger one on a tie.
toFixed(num, den, digits) ==
    LET whole == num \div den
        r == num % den
    IN  IF digits = 0
        THEN ToString(whole + (IF 2 * r >= den THEN 1 ELSE 0))
        ELSE LET tenths == whole * 10 + HalfUpTenths(r, den)
             IN  ToString(tenths \div 10) \o "." \o ToString(tenths % 10)

\* export function formatBytes(bytes?: number): string
\* bytes is {} for undefined and {n} for the number n.
formatBytes(bytes) ==
    IF bytes = {} THEN "-"
    ELSE LET n == CHOOSE x \in bytes : TRUE IN
         IF n = 0 \/ n <= 0 THEN "-"
         ELSE LET unitIndex == UnitIndexFrom(n, 0)
                  den == Pow1024(unitIndex)
              IN  toFixed(n, den, IF n \div den >= 100 THEN 0 ELSE 1)
                      \o " " \o units[unitIndex + 1]

\* Byte counts handed to formatBytes: undefined, negative, zero, the
\* values around every unit boundary and around the switch to no decimals,
\* and a sweep up to the largest count followed.
ByteCounts ==
    {-1, 0, 1, 512, 999, 1023, 1024, 1025, 1075, 1076, 1536, 10188, 10189,
     102348, 102349, 102400, 1048063, 1048064, 1048575, 1048576, 1572864,
     104857600, 734003200, 1073217536, 1073741823, 1073741824, 1127428915,
     1610612736, 2147483647}
       \cup { k * 50331653 : k \in 0..MaxByteSteps }
       \cup { k * 1234567 : k \in 0..MaxByteSteps }
       \cup { k * 777 : k \in 0..MaxByteSteps }

BytesArgs == {{}} \cup { {n} : n \in ByteCounts }

\* A memory cell or the summary is rendered: formatBytes(p.memory).
RenderBytes(bytes) ==
    /\ Alive
    /\ bytesArg' = bytes
    /\ bytesText' = formatBytes(bytes)
    /\ UNCHANGED <<answer, metricVars, teardown, viewVars, lifeVars, logVars, taskVars, lastCall, notification,
                   uptimeArg, uptimeText, insightsArg, insightsText, panelVars>>

\* ------------------------------------------------------------------------
\* App.updateInsights
\* ------------------------------------------------------------------------
\* Variant: the CPU warning starts at 80.
updateInsightsFromEighty(proc) ==
    LET cpu == OrElse(proc.cpu, 0)
        memory == OrElse(proc.memory, 0)
        restarts == OrElse(proc.restarts, 0)
        insights ==
            (IF cpu > 80 THEN <<"High CPU usage">> ELSE <<>>)
            \o (IF memory > 700 * 1048576 THEN <<"High memory usage">>
                ELSE IF memory > 400 * 1048576 THEN <<"Elevated memory">>
                ELSE <<>>)
            \o (IF restarts > 5 THEN <<"Frequent restarts">> ELSE <<>>)
            \o (IF proc.status = "errored" THEN <<"Process in error state">>
                ELSE IF proc.status = "stopped" THEN <<"Process is stopped">>
                ELSE <<>>)
    IN  IF Len(insights) = 0 THEN <<"All checks passed">> ELSE insights

\* The lines written for a selected process, in the order of the pushes;
\* (proc.cpu || 0), (proc.memory || 0) and (proc.restarts || 0) read an
\* undefined figure ({}) as 0, and memMb > n compares memory with
\* n * 1024 * 1024 bytes.
updateInsights(proc) ==
    LET cpu == OrElse(proc.cpu, 0)
        memory == OrElse(proc.memory, 0)
        restarts == OrElse(proc.restarts, 0)
        insights ==
            (IF cpu > 80 THEN <<"High CPU usage">>
             ELSE IF cpu > 50 THEN <<"Elevated CPU">>
             ELSE <<>>)
            \o (IF memory > 700 * 1048576 THEN <<"High memory usage">>
                ELSE IF memory > 400 * 1048576 THEN <<"Elevated memory">>
                ELSE <<>>)
            \o (IF restarts > 5 THEN <<"Frequent restarts">> ELSE <<>>)
            \o (IF proc.status = "errored" THEN <<"Process in error state">>
                ELSE IF proc.status = "stopped" THEN <<"Process is stopped">>
                ELSE <<>>)
    IN  IF Len(insights) = 0 THEN <<"All checks passed">> ELSE insights

\* The figures a selected process may carry: monit.cpu in percent,
\* monit.memory in bytes, restart_time and status, each figure possibly
\* undefined, around every threshold.
InsightArgs ==
    [cpu : {{}, {0}, {50}, {51}, {80}, {81}, {85}, {100}},
     memory : {{}, {0}, {400 * 1048576}, {400 * 1048576 + 1},
               {700 * 1048576}, {700 * 1048576 + 1}},
     restarts : {{}, {0}, {5}, {6}},
     status : {"online", "stopped", "errored", "launching"}]

\* The insights panel is written for a selected process with these figures.
RenderInsights(proc) ==
    /\ Alive
    /\ insightsArg' = {proc}
    /\ insightsText' = updateInsights(proc)
    /\ UNCHANGED <<answer, metricVars, teardown, viewVars, lifeVars, logVars, taskVars, lastCall, notification,
                   uptimeArg, uptimeText, bytesArg, bytesText, panelVars>>

\* ------------------------------------------------------------------------
\* The whole program
\* ------------------------------------------------------------------------
Next ==
    \/ Start
    \/ StartConnectOk
    \/ StartConnectFail
    \/ StartListOk
    \/ StartListFail
    \/ StartBusOk
    \/ StartBusFail
    \/ MetricsFirstDone
    \/ MetricsTick
    \/ RefreshTick
    \/ ForceRefreshKey
    \/ (\E i \in DOMAIN polls : PollConnectOk(i))
    \/ (\E i \in DOMAIN polls : PollConnectFail(i))
    \/ (\E i \in DOMAIN polls : PollListOk(i))
    \/ (\E i \in DOMAIN polls : PollListFail(i))
    \/ TogglePause
    \/ (\E mode \in {"all", "running", "stopped"} : SetViewMode(mode))
    \/ StartSearch
    \/ (\E value \in Queries : SearchSubmit(value))
    \/ SearchBoxCancel
    \/ cancelSearch
    \/ (\E offset \in {-10, -1, 1, 10} : changeSelection(offset))
    \/ jumpToFirst
    \/ jumpToLast
    \/ (\E index \in 0..(MaxProcs - 1) : RowSelect(index))
    \/ (\E kind \in BulkKinds : BulkKey(kind))
    \/ (\E i \in 1..MaxActs : ActConnectOk(i))
    \/ (\E i \in 1..MaxActs : ActConnectFail(i))
    \/ (\E i \in 1..MaxActs : ActOpOk(i))
    \/ (\E i \in 1..MaxActs : ActOpFail(i))
    \/ (\E i \in 1..MaxActs : ActRefreshOk(i))
    \/ (\E i \in 1..MaxActs : ActRefreshFail(i))
    \/ (\E i \in 1..MaxActs : ActDeleteListOk(i))
    \/ (\E i \in 1..MaxActs : ActDeleteListFail(i))
    \/ (\E i \in 1..MaxActs : ActDeleteOk(i))
    \/ (\E i \in 1..MaxActs : ActDeleteFail(i))
    \/ DeleteAllKey
    \/ (\E key \in ConfirmKeys : ConfirmKey(key))
    \/ openActionMenu
    \/ (\E index \in 1..Len(MenuKinds) : MenuSelect(index))
    \/ MenuCancel
    \/ (\E isError \in BOOLEAN, proc \in EventProcs : LogEvent(isError, proc))
    \/ NotificationExpire
    \/ shutdown
    \/ (\E ms \in UptimeArgs : RenderUptime(ms))
    \/ (\E bytes \in BytesArgs : RenderBytes(bytes))
    \/ (\E proc \in InsightArgs : RenderInsights(proc))

Spec == Init /\ [][Next]_vars

\* ------------------------------------------------------------------------
\* The session after a successful start(): connected, subscribed, both
\* timers running, the connect notification expired, list the result of
\* the initial refresh.  Session: all of it but the metrics and the
\* confirmation box.
\* ------------------------------------------------------------------------
Session(list) ==
    /\ connected = TRUE
    /\ startPc = "running"
    /\ exited = FALSE
    /\ processes = list
    /\ filteredProcesses = list
    /\ selectedIndex = 0
    /\ viewMode = "all"
    /\ searchQuery = ""
    /\ searchMode = FALSE
    /\ paused = FALSE
    /\ refreshTimer = TRUE
    /\ metricsPc = "looping"
    /\ busListening = TRUE
    /\ subscriptions = 1
    /\ unsubscribeLogs = TRUE
    /\ logBox = <<>>
    /\ lastLog = "none"
    /\ notification = Hidden
    /\ polls = <<>>
    /\ acts = [i \in 1..MaxActs |-> NoTask]
    /\ menu = NoProc
    /\ answer = NoAnswer
    /\ lastCall = BusCall
    /\ teardown = <<>>
    /\ uptimeArg = {}
    /\ uptimeText = ""
    /\ bytesArg = {}
    /\ bytesText = ""
    /\ insightsArg = {}
    /\ insightsText = <<>>
    /\ detailBox = SelectedOf(0, list)
    /\ insightsBox = SelectedOf(0, list)
    /\ actionsBox = ""
    /\ logLabel = ""

Running(list) ==
    /\ Session(list)
    /\ prompt = NoPrompt
    /\ cpuHistory = <<>>
    /\ memHistory = <<>>
    /\ sampled = 0
    /\ lastSample = "none"

\* The same session after HISTORY_LENGTH successful samples (the histories
\* hold all of them, none has been shifted out yet) and the 'd' key: the
\* delete-all confirmation is open.
InitConfirming ==
    \E list \in RegistryLists :
        /\ Session(list)
        /\ prompt = [kind |-> "deleteAll", proc |-> NoProc]
        /\ cpuHistory = [n \in 1..HISTORY_LENGTH |-> CpuSample(n)]
        /\ memHistory = [n \in 1..HISTORY_LENGTH |-> MemSample(n)]
        /\ sampled = HISTORY_LENGTH
        /\ lastSample = "both"

InitRunning == \E list \in RegistryLists : Running(list)

\* Start-up, pause, polling and shutdown.
NextLife ==
    \/ Start
    \/ StartConnectOk
    \/ StartConnectFail
    \/ StartListOk
    \/ StartListFail
    \/ StartBusOk
    \/ StartBusFail
    \/ MetricsFirstDone
    \/ RefreshTick
    \/ ForceRefreshKey
    \/ (\E i \in DOMAIN polls : PollConnectOk(i))
    \/ (\E i \in DOMAIN polls : PollConnectFail(i))
    \/ (\E i \in DOMAIN polls : PollListOk(i))
    \/ (\E i \in DOMAIN polls : PollListFail(i))
    \/ TogglePause
    \/ NotificationExpire
    \/ shutdown

SpecLife == Init /\ [][NextLife]_vars

\* Polling, view modes, search and selection of a running session.
NextView ==
    \/ RefreshTick
    \/ ForceRefreshKey
    \/ (\E i \in DOMAIN polls : PollListOk(i))
    \/ (\E i \in DOMAIN polls : PollListFail(i))
    \/ (\E mode \in {"all", "running", "stopped"} : SetViewMode(mode))
    \/ StartSearch
    \/ (\E value \in Queries : SearchSubmit(value))
    \/ SearchBoxCancel
    \/ cancelSearch
    \/ (\E offset \in {-10, -1, 1, 10} : changeSelection(offset))
    \/ jumpToFirst
    \/ jumpToLast

SpecView == InitRunning /\ [][NextView]_vars

\* The same with the table's own row selection.
NextPanel ==
    \/ NextView
    \/ (\E index \in 0..(MaxProcs - 1) : RowSelect(index))

SpecPanel == InitRunning /\ [][NextPanel]_vars

\* The log stream of a running session against search and selection.
NextLog ==
    \/ StartSearch
    \/ (\E value \in Queries : SearchSubmit(value))
    \/ (\E offset \in {-10, -1, 1, 10} : changeSelection(offset))
    \/ jumpToFirst
    \/ jumpToLast
    \/ (\E isError \in BOOLEAN, proc \in EventProcs : LogEvent(isError, proc))

SpecLog == InitRunning /\ [][NextLog]_vars

\* Bulk actions and delete-all of a running session.
NextBulk ==
    \/ (\E kind \in BulkKinds : BulkKey(kind))
    \/ DeleteAllKey
    \/ (\E key \in ConfirmKeys : ConfirmKey(key))
    \/ (\E i \in 1..MaxActs : ActOpOk(i))
    \/ (\E i \in 1..MaxActs : ActOpFail(i))
    \/ (\E i \in 1..MaxActs : ActRefreshOk(i))
    \/ (\E i \in 1..MaxActs : ActRefreshFail(i))
    \/ (\E i \in 1..MaxActs : ActDeleteListOk(i))
    \/ (\E i \in 1..MaxActs : ActDeleteListFail(i))
    \/ (\E i \in 1..MaxActs : ActDeleteOk(i))
    \/ (\E i \in 1..MaxActs : ActDeleteFail(i))

SpecBulk == InitRunning /\ [][NextBulk]_vars

\* The action menu and its confirmation of a running session whose
\* operations and refreshes succeed (their failures: NextBulk).
NextMenu ==
    \/ openActionMenu
    \/ (\E index \in 1..Len(MenuKinds) : MenuSelect(index))
    \/ MenuCancel
    \/ (\E key \in ConfirmKeys : ConfirmKey(key))
    \/ (\E i \in 1..MaxActs : ActOpOk(i))
    \/ (\E i \in 1..MaxActs : ActRefreshOk(i))

SpecMenu == InitRunning /\ [][NextMenu]_vars

\* The metrics loop of a running session against the pause key.
NextMetrics ==
    \/ MetricsTick
    \/ TogglePause
    \/ NotificationExpire

SpecMetrics == InitRunning /\ [][NextMetrics]_vars

\* Start-up, the log stream and shutdown.
NextStop ==
    \/ Start
    \/ StartConnectOk
    \/ StartConnectFail
    \/ StartListOk
    \/ StartListFail
    \/ StartBusOk
    \/ StartBusFail
    \/ MetricsFirstDone
    \/ TogglePause
    \/ (\E isError \in BOOLEAN, proc \in EventProcs : LogEvent(isError, proc))
    \/ shutdown

SpecStop == Init /\ [][NextStop]_vars

\* Every way into an action: the bulk keys, delete-all with its loop, the
\* action menu and the confirmation box, while the registry operations
\* begun are still pending.
NextGate ==
    \/ (\E kind \in BulkKinds : BulkKey(kind))
    \/ DeleteAllKey
    \/ openActionMenu
    \/ (\E index \in 1..Len(MenuKinds) : MenuSelect(index))
    \/ MenuCancel
    \/ (\E key \in ConfirmKeys : ConfirmKey(key))
    \/ (\E i \in 1..MaxActs : ActDeleteListOk(i))
    \/ (\E i \in 1..MaxActs : ActDeleteOk(i))

\* A running session whose registry holds MaxProcs processes.
InitGate == \E list \in RegistryLists : Len(list) = MaxProcs /\ Running(list)

SpecGate == InitGate /\ [][NextGate]_vars

\* The metrics loop of a running session against bulk actions begun and
\* the delete-all confirmation.
NextQuiet ==
    \/ MetricsTick
    \/ (\E kind \in BulkKinds : BulkKey(kind))
    \/ DeleteAllKey
    \/ (\E key \in ConfirmKeys : ConfirmKey(key))

SpecQuiet == InitGate /\ [][NextQuiet]_vars

\* Bulk actions of a running session against the refresh timer.
NextRace ==
    \/ RefreshTick
    \/ (\E i \in DOMAIN polls : PollListOk(i))
    \/ (\E i \in DOMAIN polls : PollListFail(i))
    \/ (\E kind \in BulkKinds : BulkKey(kind))
    \/ (\E i \in 1..MaxActs : ActOpOk(i))
    \/ (\E i \in 1..MaxActs : ActOpFail(i))
    \/ (\E i \in 1..MaxActs : ActRefreshOk(i))
    \/ (\E i \in 1..MaxActs : ActRefreshFail(i))

SpecRace == InitRunning /\ [][NextRace]_vars

\* The formatting of table cells in a running session.
NextFormat ==
    \/ (\E ms \in UptimeArgs : RenderUptime(ms))

SpecFormat == InitRunning /\ [][NextFormat]_vars

\* The formatting of memory figures in a running session.
NextBytes ==
    \/ (\E bytes \in BytesArgs : RenderBytes(bytes))

SpecBytes == InitRunning /\ [][NextBytes]_vars

\* The registry operations of the action menu and their confirmation
\* against the refresh timer, which changes the list and with it the
\* process under the selection; the operations begun are still pending.
NextTarget ==
    \/ openActionMenu
    \/ (\E index \in 1..(Len(MenuKinds) - 1) : MenuSelect(index))
    \/ MenuCancel
    \/ (\E key \in ConfirmKeys : ConfirmKey(key))
    \/ RefreshTick
    \/ (\E i \in DOMAIN polls : PollListOk(i))

SpecTarget == InitRunning /\ [][NextTarget]_vars

\* The log stream of a running session against the refresh timer and the
\* jump to the last row.
NextDrop ==
    \/ RefreshTick
    \/ (\E i \in DOMAIN polls : PollListOk(i))
    \/ jumpToLast
    \/ (\E isError \in BOOLEAN, proc \in EventProcs : LogEvent(isError, proc))

SpecDrop == InitRunning /\ [][NextDrop]_vars

\* The timers and the log stream against an open delete-all confirmation
\* and its answer.
NextWait ==
    \/ (\E key \in ConfirmKeys : ConfirmKey(key))
    \/ RefreshTick
    \/ (\E i \in DOMAIN polls : PollListOk(i))
    \/ MetricsTick
    \/ (\E isError \in BOOLEAN, proc \in EventProcs : LogEvent(isError, proc))

SpecWait == InitConfirming /\ [][NextWait]_vars

\* Both timers of a running session whose metrics readings are rejected,
\* against the pause key and shutdown.
NextRetry ==
    \/ RefreshTick
    \/ (\E i \in DOMAIN polls : PollListOk(i))
    \/ (\E i \in DOMAIN polls : PollListFail(i))
    \/ (MetricsTick /\ lastSample' # "both")
    \/ TogglePause
    \/ shutdown

SpecRetry == InitRunning /\ [][NextRetry]_vars

\* The insights panel of a running session.
NextInsights ==
    \/ (\E proc \in InsightArgs : RenderInsights(proc))

SpecInsights == InitRunning /\ [][NextInsights]_vars

\* ------------------------------------------------------------------------
\* Properties
\* ------------------------------------------------------------------------
AnyRefreshFailure ==
    \/ StartListFail
    \/ (\E i \in DOMAIN polls : PollListFail(i))
    \/ (\E i \in DOMAIN polls : PollConnectFail(i))

\* C1: a refreshProcesses invocation whose listProcesses call fails writes
\* nothing to processes, filteredProcesses or selectedIndex, and shows an
\* error notification.
RefreshFailureKeepsState ==
    [][AnyRefreshFailure =>
         /\ processes' = processes
         /\ filteredProcesses' = filteredProcesses
         /\ selectedIndex' = selectedIndex
         /\ notification'.visible /\ notification'.type = "error"]_vars

\* C1 witness: a refresh failed while a list was held and the selection
\* had been moved off the first row.
RefreshFailureSeen ==
    /\ notification.msg = "refreshError"
    /\ Len(processes) > 1
    /\ selectedIndex > 0

FilterOrSearchChange ==
    \/ (\E mode \in {"all", "running", "stopped"} : SetViewMode(mode))
    \/ (\E value \in Queries : SearchSubmit(value))
    \/ SearchBoxCancel
    \/ cancelSearch

\* C2: a view-mode change, search submission or search cancellation that
\* starts with the selection in range of the active list ends with it in
\* range (and at 0 when the active list is empty).
FilterKeepsSelectionInRange ==
    [][LET InRange(index, list) ==
               IF Len(list) > 0 THEN index < Len(list) ELSE index = 0
       IN  (FilterOrSearchChange /\ InRange(selectedIndex, procsNow))
               => InRange(selectedIndex', procsNow')]_vars

Executing(task) == task.pc \in {"op", "list", "del"}

\* C3: an action sequence leaves Executing, on success and on failure of
\* its registry operation, only into its forced refreshProcesses(true).
ExecutingEndsInForcedRefresh ==
    [][\A i \in 1..MaxActs :
         (Executing(acts[i]) /\ ~Executing(acts'[i]))
            => (acts'[i].pc = "refresh" /\ lastCall' = ListCall)]_vars

\* C4: at most one action sequence is between issuing its registry
\* operation and finishing its post-action refresh.
AtMostOneActionInFlight == Cardinality(Busy) <= 1

\* C5: a delete-all confirmation answered negatively issues no delete and
\* no listProcesses request and shows no in-flight or success notification.
DeniedDeleteAllDoesNothing ==
    [][\A key \in ConfirmKeys \ {"y", "Y"} :
         (prompt.kind = "deleteAll" /\ ConfirmKey(key))
            => /\ acts' = acts
               /\ lastCall' = lastCall
               /\ notification' = notification
               /\ prompt' = NoPrompt]_vars

\* C5 witness: a delete-all confirmation was answered negatively while a
\* bulk action was in flight.
DeniedDeleteAllSeen ==
    /\ answer = [kind |-> "deleteAll", confirmed |-> FALSE]
    /\ prompt = NoPrompt
    /\ Busy # {}

DeleteAllContinuesPastFailure ==
    [][\A i \in 1..MaxActs :
         (acts[i].pc = "del" /\ Len(acts[i].rest) > 1 /\ acts'[i] # acts[i])
            => /\ acts'[i].pc = "del"
               /\ acts'[i].rest = Tail(acts[i].rest)
               /\ lastCall' = DeleteCall(Head(Tail(acts[i].rest)))]_vars

\* C8: wherever the pause key can be pressed, pressing it twice in
\* succession restores paused and leaves the refresh timer running iff it
\* was running before.
DoubleToggleRestores ==
    KeysActive =>
        LET paused1 == TogglePaused(paused)
            timer1 == TimerAfterToggle(paused1, refreshTimer)
            paused2 == TogglePaused(paused1)
            timer2 == TimerAfterToggle(paused2, timer1)
        IN  paused2 = paused /\ timer2 = refreshTimer

EventId(proc) == CHOOSE id \in proc.pm_id : TRUE

\* C9: a log packet carrying process id A leaves the log view unchanged
\* while the selected process has another id, and is appended to it while
\* the selected process has id A.
LogFollowsSelectedId ==
    [][\A isError \in BOOLEAN, proc \in EventProcs :
         (proc.pm_id # {} /\ getSelectedProcess # NoProc /\ LogEvent(isError, proc))
            => IF getSelectedProcess.pmId = EventId(proc)
               THEN logBox' = Append(logBox, LogLine(isError, proc))
               ELSE logBox' = logBox]_vars

\* C9 witness: the selection was moved to the process with id 1 and a
\* packet carrying id 1 is in the log view.
LogOfNewSelectionSeen ==
    /\ selectedIndex > 0
    /\ getSelectedProcess.pmId = 1
    /\ logBox # <<>>
    /\ logBox[Len(logBox)].name = "API"

\* C10: a log packet is displayed iff its id equals the selected process's
\* id or, when it carries no id, iff its name equals the selected
\* process's name.
LogRoutedByIdOrName ==
    [][LET ById(proc) == getSelectedProcess.pmId = EventId(proc)
           ByName(proc) == getSelectedProcess.name = OrElse(proc.name, "unknown")
           Routed(proc) == /\ getSelectedProcess # NoProc
                           /\ IF proc.pm_id # {} THEN ById(proc) ELSE ByName(proc)
       IN  \A isError \in BOOLEAN, proc \in EventProcs :
               LogEvent(isError, proc) => (logBox' # logBox <=> Routed(proc))]_vars

\* C11: with view mode running (resp. stopped) and no search query, the
\* list that drives the table rows, the selection and the navigation
\* bounds holds the online (resp. not online) processes only.
ModeDrivesActiveList ==
    (viewMode \in {"running", "stopped"} /\ searchQuery = "")
        => \A k \in DOMAIN procsNow :
               IF viewMode = "running" THEN procsNow[k].status = "online"
               ELSE procsNow[k].status # "online"

\* The steps that run applyFilter.
AppliesFilter ==
    \/ (\E mode \in {"all", "running", "stopped"} : SetViewMode(mode))
    \/ (\E value \in Queries : SearchSubmit(value))
    \/ cancelSearch
    \/ (\E i \in DOMAIN polls : PollListOk(i))

\* C12: after applyFilter, filteredProcesses is exactly the
\* order-preserving subsequence of processes that satisfy the mode
\* predicate and, with a non-empty query, contain the query
\* case-insensitively in name, namespace or status.
FilterIsExactSubsequence ==
    [][LET ModeOk(p, mode) ==
               \/ mode = "all"
               \/ mode = "running" /\ p.status = "online"
               \/ mode = "stopped" /\ p.status # "online"
           Has(field, query) ==
               includes(toLowerCase(Chars(field)), toLowerCase(Chars(query)))
           QueryOk(p, query) ==
               query # "" => (Has(p.name, query) \/ Has(p.namespace, query)
                                \/ Has(p.status, query))
           Keep(p, mode, query) == ModeOk(p, mode) /\ QueryOk(p, query)
           Kept(procs, mode, query) ==
               { k \in DOMAIN procs : Keep(procs[k], mode, query) }
           IsSubsequence(f, procs, mode, query) ==
               /\ Len(f) = Cardinality(Kept(procs, mode, query))
               /\ \E at \in [DOMAIN f -> Kept(procs, mode, query)] :
                    /\ \A k \in DOMAIN f : f[k] = procs[at[k]]
                    /\ \A j, k \in DOMAIN f : j < k => at[j] < at[k]
       IN  AppliesFilter
               => IsSubsequence(filteredProcesses', processes', viewMode', searchQuery')]_vars

\* C12 witness: mode stopped and the query "P" keep the second of two
\* processes (API, stopped) and drop the first.
FilteredByModeAndQuerySeen ==
    /\ viewMode = "stopped" /\ searchQuery = "P" /\ ~searchMode
    /\ Len(processes) = 2
    /\ Len(filteredProcesses) = 1
    /\ filteredProcesses[1] = processes[2]

\* C13: while paused, a refreshProcesses(false) issues no listProcesses
\* request and changes nothing, and a forced one (F5 / R) issues the
\* request, whose result replaces processes.
PausedRefreshOnlyWhenForced ==
    [][/\ (paused /\ RefreshTick) => UNCHANGED vars
       /\ (paused /\ polls' # polls /\ Len(polls') > Len(polls))
             => polls'[Len(polls')].force
       /\ (paused /\ ForceRefreshKey)
             => /\ Len(polls') = Len(polls) + 1
                /\ polls'[Len(polls')].force
                /\ lastCall' = IF connected THEN ListCall ELSE ConnectCall
       /\ \A i \in DOMAIN polls :
             (paused /\ polls[i].force /\ PollListOk(i))
                => /\ processes' \in RegistryLists
                   /\ filteredProcesses' = applyFilter(processes', viewMode, searchQuery)]_vars

\* C13 witness: paused with the refresh timer still firing (pause was
\* pressed while start() was awaiting), and the list request of an F5
\* pressed after the pause is in flight.
ForcedRefreshWhilePausedSeen ==
    /\ paused /\ refreshTimer
    /\ notification.msg = "refreshing"
    /\ polls # <<>> /\ polls[1].force /\ polls[1].phase = "list"

\* C14: the pause key stops or restarts the refresh timer only: the
\* metrics timer, both histories, the log subscription, processes,
\* filteredProcesses and selectedIndex are as before the key, and a sample
\* arriving while paused is recorded.
PauseLeavesMetricsAndViewAlone ==
    [][/\ TogglePause
            => /\ UNCHANGED <<metricsPc, cpuHistory, memHistory, sampled>>
               /\ UNCHANGED <<busListening, unsubscribeLogs, logBox>>
               /\ UNCHANGED <<processes, filteredProcesses, selectedIndex>>
               /\ paused' # paused
               /\ refreshTimer' = ~paused'
       /\ (paused /\ sampled' # sampled)
            => /\ sampled' = sampled + 1
               /\ cpuHistory' # cpuHistory /\ memHistory' # memHistory
               /\ cpuHistory'[Len(cpuHistory')] = CpuSample(sampled')
               /\ memHistory'[Len(memHistory')] = MemSample(sampled')
               /\ UNCHANGED <<paused, refreshTimer>>]_vars

\* C14 witness: paused by the key, the refresh timer stopped, the metrics
\* timer running and samples recorded.
PausedWithLiveMetricsSeen ==
    /\ paused /\ ~refreshTimer
    /\ notification.msg = "paused"
    /\ metricsPc = "looping"
    /\ sampled > 1 /\ Len(cpuHistory) = sampled

\* C15: cpuHistory and memHistory have equal length, at most
\* HISTORY_LENGTH, and after n successful samples hold the last
\* min(n, HISTORY_LENGTH) samples in arrival order.
HistoriesHoldLatestSamples ==
    LET n == sampled
        len == IF n < HISTORY_LENGTH THEN n ELSE HISTORY_LENGTH
    IN  /\ Len(cpuHistory) = Len(memHistory)
        /\ Len(cpuHistory) <= HISTORY_LENGTH
        /\ Len(cpuHistory) = len
        /\ \A k \in 1..len :
             /\ cpuHistory[k] = CpuSample(n - len + k)
             /\ memHistory[k] = MemSample(n - len + k)

\* C15 witness: more samples arrived than the histories hold; the first
\* one was evicted.
HistoryOverflowSeen ==
    /\ sampled > HISTORY_LENGTH
    /\ Len(cpuHistory) = HISTORY_LENGTH
    /\ cpuHistory[1] = CpuSample(sampled - HISTORY_LENGTH + 1)

\* C16: the notification slot is single-slot, last write wins: at most
\* one expiry timeout is pending, a shown notification is hidden only by
\* the timeout its own showNotification armed, and every change of the
\* slot is either a showNotification (visible, one fresh timeout) or that
\* timeout firing (same content, hidden, none pending).
NotificationSingleSlot ==
    [][/\ notification'.timer \in {0, 1}
       /\ notification'.visible <=> notification'.timer = 1
       /\ notification' # notification
            => \/ notification'.visible /\ notification'.timer = 1
               \/ /\ NotificationExpire
                  /\ notification.visible /\ ~notification'.visible
                  /\ notification'.msg = notification.msg
                  /\ notification'.timer = 0]_vars

\* C16 witness: "connected" replaced "connecting" and has expired while
\* start() is still awaiting its refresh.
ReplacedNotificationExpiredSeen ==
    /\ startPc = "refreshing"
    /\ notification.msg = "connected"
    /\ ~notification.visible /\ notification.timer = 0

\* C17: shutdown cancels the refresh timer and the metrics timer and
\* unsubscribes the log stream before it disconnects from the registry;
\* the unsubscribe function is called at most once per subscription, also
\* by a shutdown that would follow; no log line is appended afterwards.
ShutdownTearsDownBeforeDisconnect ==
    [][LET Before(first, second, calls) ==
               \A i, j \in DOMAIN calls :
                   (calls[i] = first /\ calls[j] = second) => i < j
           Count(call, calls) ==
               Cardinality({ i \in DOMAIN calls : calls[i] = call })
       IN  /\ shutdown
              => /\ refreshTimer => Count("clearInterval(refreshTimer)", teardown') = 1
                 /\ busListening => Count("unsubscribeLogs", teardown') = 1
                 /\ Count("clearInterval(statsTimer)", teardown') = 1
                 /\ connected => Count("pm2.disconnect", teardown') = 1
                 /\ Before("clearInterval(refreshTimer)", "pm2.disconnect", teardown')
                 /\ Before("unsubscribeLogs", "pm2.disconnect", teardown')
                 /\ Before("clearInterval(statsTimer)", "pm2.disconnect", teardown')
                 /\ ~refreshTimer' /\ ~busListening' /\ ~unsubscribeLogs' /\ ~connected'
                 /\ metricsPc' # "looping"
                 /\ Count("unsubscribeLogs",
                          ShutdownCalls(refreshTimer', unsubscribeLogs', connected')) = 0
           /\ Count("unsubscribeLogs", teardown') <= 1
           /\ exited => logBox' = logBox]_vars

\* C17 witness: a session with both timers running, a subscribed log
\* stream that delivered a line, shut down.
FullShutdownSeen ==
    /\ exited
    /\ logBox # <<>>
    /\ teardown = <<"clearInterval(refreshTimer)", "unsubscribeLogs",
                    "clearInterval(statsTimer)", "pm2.disconnect", "process.exit">>

\* C18: once the initial connect has failed, no list is fetched, no log
\* subscription exists, no timer runs and no further connect is attempted,
\* whatever the user does afterwards.
ConnectFailureIsFatal ==
    startPc = "connectFailed"
        => /\ ~connected
           /\ polls = <<>>
           /\ lastCall = ConnectCall
           /\ processes = <<>>
           /\ ~busListening
           /\ ~refreshTimer
           /\ metricsPc = "idle"

\* A wrapAction invocation begins in this step.
ActionBegins(i) == acts[i].pc = "idle" /\ acts'[i].pc # "idle"

\* C19: a single-process stop or delete and the delete-all run begin only
\* in the step that answers their own confirmation affirmatively;
\* delete-all asks once for the whole batch; start, restart, reload and
\* the four bulk keys begin at once, without a prompt.
ConfirmationGatesDestructiveActions ==
    [][/\ \A i \in 1..MaxActs :
            (ActionBegins(i) /\ lastCall'.name # "all" /\ lastCall'.op \in {"stop", "delete"})
               => /\ prompt.kind = lastCall'.op
                  /\ prompt.proc.pmId = lastCall'.pmId
                  /\ \E key \in {"y", "Y"} : ConfirmKey(key)
       /\ \A i \in 1..MaxActs :
            (ActionBegins(i) /\ acts'[i].pc = "list")
               => /\ prompt.kind = "deleteAll"
                  /\ \E key \in {"y", "Y"} : ConfirmKey(key)
       /\ \A i \in 1..MaxActs :
            (acts[i].pc # "del" /\ acts'[i].pc = "del") => acts[i].pc = "list"
       /\ \A i \in 1..MaxActs :
            (acts[i].pc \in {"list", "del"} /\ acts'[i] # acts[i]) => prompt' = prompt
       /\ \A index \in 1..Len(MenuKinds) :
            (MenuSelect(index) /\ MenuKinds[index] \in {"start", "restart", "reload"})
               => /\ prompt' = prompt
                  /\ \E i \in 1..MaxActs : ActionBegins(i) /\ acts'[i].pc = "op"
                  /\ lastCall' = MenuCall(MenuKinds[index], menu)
       /\ \A kind \in BulkKinds :
            BulkKey(kind)
               => /\ prompt' = prompt
                  /\ \E i \in 1..MaxActs : ActionBegins(i) /\ acts'[i].pc = "op"
                  /\ lastCall' = BulkCall(kind)]_vars

\* C19 witness: a confirmed delete-all is deleting its second target
\* while no prompt is open.
ConfirmedDeleteAllRunningSeen ==
    /\ answer = [kind |-> "deleteAll", confirmed |-> TRUE]
    /\ prompt = NoPrompt
    /\ \E i \in 1..MaxActs : acts[i].pc = "del" /\ Len(acts[i].rest) = 1
    /\ lastCall.op = "delete"

\* C20: for whole milliseconds ms >= 0 formatUptime yields "<s>s" below
\* one minute, "<m>m <s>s" below one hour and "<h>h <m>m" from one hour
\* on, by floor division; 0 gives "0s".
UptimeTextAsSpecified ==
    \A ms \in uptimeArg :
        ms >= 0 =>
            uptimeText =
                IF ms < 60000 THEN ToString(ms \div 1000) \o "s"
                ELSE IF ms < 3600000
                     THEN ToString(ms \div 60000) \o "m "
                              \o ToString((ms % 60000) \div 1000) \o "s"
                     ELSE ToString(ms \div 3600000) \o "h "
                              \o ToString((ms % 3600000) \div 60000) \o "m"

\* C21: formatBytes maps 0 to "-", 1536 to "1.5 KB" and 1073741824 to
\* "1 GB", and for every positive byte count the unit shown is the largest
\* of B, KB, MB, GB whose power of 1024 does not exceed the count.
BytesTextAsSpecified ==
    LET Fits(b) == { k \in 0..3 : b >= Pow1024(k) }
        UnitOf(b) == CHOOSE k \in Fits(b) : \A j \in Fits(b) : j <= k
        Shown(b, k) == toFixed(b, Pow1024(k), IF b \div Pow1024(k) >= 100 THEN 0 ELSE 1)
    IN  /\ bytesArg = {0} => bytesText = "-"
        /\ bytesArg = {1536} => bytesText = "1.5 KB"
        /\ bytesArg = {1073741824} => bytesText = "1 GB"
        /\ \A b \in bytesArg :
             b > 0 => bytesText = Shown(b, UnitOf(b)) \o " " \o units[UnitOf(b) + 1]

\* A refreshProcesses invocation reaches the end of its success path.
AnyRefreshSuccess ==
    \/ StartListOk
    \/ (\E i \in DOMAIN polls : PollListOk(i))
    \/ (\E i \in 1..MaxActs : ActRefreshOk(i))

\* C22: after every successful refreshProcesses, also one whose result
\* makes the active list shorter than selectedIndex + 1, selectedIndex
\* lies in [0, length(activeList) - 1], and is 0 when the list is empty.
RefreshClampsSelection ==
    [][AnyRefreshSuccess
          => IF Len(procsNow') = 0 THEN selectedIndex' = 0
             ELSE selectedIndex' \in 0..(Len(procsNow') - 1)]_vars

\* The latest updateMetrics() call ended in its catch.
SampleFailed ==
    /\ (MetricsTick \/ MetricsFirstDone)
    /\ lastSample' \in {"cpuRejected", "memRejected"}

\* C23: a metrics sample whose CPU or memory reading is rejected changes
\* neither history (nothing is pushed to only one of them), leaves the
\* notification slot as it was and does not touch the actions in flight,
\* the menu or the confirmation box.
FailedSampleIsSilent ==
    [][SampleFailed
          => /\ UNCHANGED <<cpuHistory, memHistory, sampled>>
             /\ Len(cpuHistory') = Len(memHistory')
             /\ UNCHANGED notification
             /\ UNCHANGED <<acts, polls, menu, prompt, answer, lastCall>>
             /\ UNCHANGED viewVars]_vars

\* C23 witness: the memory reading was rejected after a successful sample
\* while a bulk action is pending, its notification is shown and the
\* delete-all confirmation is open.
FailedSampleDuringActionSeen ==
    /\ lastSample = "memRejected"
    /\ sampled > 0 /\ Len(cpuHistory) = sampled /\ Len(memHistory) = sampled
    /\ Busy # {}
    /\ notification.visible /\ notification.msg = "progress"
    /\ prompt.kind = "deleteAll"

\* C24: from the completion of a successful start() until shutdown
\* exactly one log subscription is live, and in no reachable state are
\* two or more live.
OneLogSubscription ==
    /\ subscriptions <= 1
    /\ (startPc = "running" /\ ~exited) => subscriptions = 1

\* C24 witness: start() has completed, the session was paused since and
\* the subscription has delivered a line.
SubscribedSessionSeen ==
    /\ startPc = "running" /\ ~exited
    /\ subscriptions = 1
    /\ paused
    /\ logBox # <<>>

\* C25: when the log subscription cannot be established during start(),
\* the session is not aborted: start() still completes and both timers
\* are started.
SubscriptionFailureTolerated ==
    [][StartBusFail
          => /\ startPc' = "running"
             /\ refreshTimer'
             /\ metricsPc' \in {"first", "looping"}]_vars

\* C26: after every successful refresh processes is ordered by name: of
\* every adjacent pair the earlier name is not greater than the later one
\* (names compared as strings, code unit by code unit).
ProcessesSortedByName ==
    [][LET Code(c) ==
               CASE c = "A" -> 65 [] c = "I" -> 73 [] c = "P" -> 80
                 [] c = "b" -> 98 [] c = "e" -> 101 [] c = "k" -> 107
                 [] c = "n" -> 110 [] c = "o" -> 111 [] c = "u" -> 117
                 [] c = "w" -> 119
           NotGreater(a, b) ==
               \/ \E k \in 1..Min(Len(a), Len(b)) :
                      /\ \A j \in 1..(k - 1) : a[j] = b[j]
                      /\ Code(a[k]) < Code(b[k])
               \/ /\ Len(a) <= Len(b)
                  /\ \A j \in 1..Len(a) : a[j] = b[j]
       IN  AnyRefreshSuccess
              => \A k \in 1..(Len(processes') - 1) :
                     NotGreater(Chars(processes'[k].name), Chars(processes'[k + 1].name))]_vars

\* C27: once an action whose registry operation succeeded has applied
\* its post-action list, the response to a list request issued before
\* that operation completed does not replace the list.
StaleListNeverApplied ==
    [][\A k \in DOMAIN polls :
          (polls[k].overtaken /\ PollListOk(k)) => processes' = processes]_vars

\* C28: while paused, processes and filteredProcesses change only by a
\* forced refresh: the response to a timer-driven request that was in
\* flight when the pause began leaves them as they are.
PausedListChangesOnlyByForce ==
    [][\A i \in DOMAIN polls :
          (paused /\ ~polls[i].force /\ PollListOk(i))
             => (processes' = processes /\ filteredProcesses' = filteredProcesses)]_vars

\* C29: between event handlers filteredProcesses is the projection of
\* the current processes under the current viewMode and searchQuery, also
\* after the search prompt was opened or dismissed without submitting.
FilteredIsCurrentProjection ==
    filteredProcesses = applyFilter(processes, viewMode, searchQuery)

\* A command that changes the selected process or the active list.
PanelCommand ==
    \/ (\E offset \in {-10, -1, 1, 10} : changeSelection(offset))
    \/ jumpToFirst
    \/ jumpToLast
    \/ (\E mode \in {"all", "running", "stopped"} : SetViewMode(mode))
    \/ (\E value \in Queries : SearchSubmit(value))
    \/ cancelSearch
    \/ (\E i \in DOMAIN polls : PollListOk(i))

\* C30: after a selection move, a jump, a view-mode change, a search
\* submission or cancellation and a successful refresh, the detail panel,
\* the insights panel, the actions panel's 'Selected' entry and the log
\* view's label describe the process at selectedIndex of the active
\* list, or have their empty form when there is none.
PanelsFollowSelection ==
    [][PanelCommand
          => /\ detailBox' = getSelectedProcess'
             /\ insightsBox' = getSelectedProcess'
             /\ actionsBox' = getSelectedProcess'.name
             /\ logLabel' = getSelectedProcess'.name]_vars

\* A single-process action is confirmed: a menu entry without confirm flag
\* is selected, or the stop / delete confirmation is answered with y / Y.
SingleActionConfirmed(kind, proc) ==
    \/ /\ kind \in {"start", "restart", "reload"}
       /\ proc = menu
       /\ \E index \in 1..Len(MenuKinds) : MenuKinds[index] = kind /\ MenuSelect(index)
    \/ /\ kind \in {"stop", "delete"}
       /\ prompt = [kind |-> kind, proc |-> proc]
       /\ \E key \in {"y", "Y"} : ConfirmKey(key)

\* C31: each confirmed single-process action invokes exactly one registry
\* operation, of the chosen kind, on the process that was selected when
\* the action menu was opened, whatever the selection and the list are by
\* then.
ActionTargetsCapturedProcess ==
    [][/\ openActionMenu => menu' = getSelectedProcess
       /\ \A index \in 1..Len(MenuKinds) :
              (MenuSelect(index) /\ NeedsConfirm(MenuKinds[index]))
                 => prompt'.proc = menu
       /\ \A kind \in {"start", "restart", "stop", "reload", "delete"}, proc \in {menu, prompt.proc} :
              SingleActionConfirmed(kind, proc)
                 => /\ Cardinality({ i \in 1..MaxActs : acts'[i] # acts[i] }) = 1
                    /\ acts'[FreeSlot].pc = "op"
                    /\ lastCall' =
                          CASE kind = "start" -> Call("start", -2, proc.name)
                            [] kind = "restart" -> Call("restart", proc.pmId, "")
                            [] kind = "stop" -> Call("stop", proc.pmId, "")
                            [] kind = "reload" -> Call("reload", proc.pmId, "")
                            [] kind = "delete" -> Call("delete", proc.pmId, "")]_vars

\* C31 witness: a confirmed stop was issued for a process that is no
\* longer in the list, while another process is the selected one.
StopOfEarlierSelectionSeen ==
    /\ answer = [kind |-> "stop", confirmed |-> TRUE]
    /\ lastCall.op = "stop"
    /\ getSelectedProcess # NoProc
    /\ \A k \in DOMAIN processes : processes[k].pmId # lastCall.pmId
    /\ \E i \in 1..MaxActs : acts[i].pc = "op"

\* The packet's process is not in the active list, or no row is selected:
\* the active list is empty or selectedIndex points past its end.
NothingToShowFor(proc) ==
    \/ \A k \in DOMAIN procsNow : procsNow[k].pmId # OrElse(proc.pm_id, -1)
    \/ procsNow = <<>>
    \/ selectedIndex >= Len(procsNow)

\* C32: a log event for a process that is not in the active list, or that
\* arrives when the active list is empty or selectedIndex points past its
\* end, is ignored: the log view and all other state stay as they are.
UnlistedLogEventIgnored ==
    [][\A isError \in BOOLEAN, proc \in EventProcs :
         (NothingToShowFor(proc) /\ LogEvent(isError, proc))
            => /\ lastLog' = "ignored"
               /\ UNCHANGED <<viewVars, lifeVars, taskVars, answer, lastCall, notification,
                              metricVars, teardown, formatVars, panelVars,
                              busListening, subscriptions, unsubscribeLogs, logBox>>]_vars

\* C32 witness: a packet was ignored while selectedIndex points past the
\* end of a list that lost a process and a line of that process is in the
\* log view.
IgnoredPastEndSeen ==
    /\ lastLog = "ignored"
    /\ procsNow # <<>>
    /\ selectedIndex >= Len(procsNow)
    /\ logBox # <<>>

\* C33: while a confirmation prompt awaits its answer the refresh timer
\* issues its request, a pending list response replaces the list, a
\* metrics sample is recorded and a log line of the selected process is
\* shown, each leaving the prompt open; the action that asked for the
\* confirmation has not begun.
ConfirmationSuspendsOnlyItsAction ==
    prompt # NoPrompt =>
        /\ \A i \in 1..MaxActs : acts[i] = NoTask
        /\ Len(polls) < MaxPolls =>
              ENABLED (RefreshTick /\ Len(polls') = Len(polls) + 1 /\ prompt' = prompt)
        /\ \A i \in DOMAIN polls :
              ENABLED (PollListOk(i) /\ processes' # processes /\ prompt' = prompt)
        /\ sampled < MaxSamples =>
              ENABLED (MetricsTick /\ sampled' = sampled + 1 /\ prompt' = prompt)
        /\ (getSelectedProcess # NoProc /\ Len(logBox) < MaxLog) =>
              ENABLED (/\ \E isError \in BOOLEAN, proc \in EventProcs : LogEvent(isError, proc)
                       /\ Len(logBox') = Len(logBox) + 1
                       /\ prompt' = prompt)

\* C33 witness: with the confirmation still open, a sample beyond the
\* initial ones was recorded, a timer refresh was issued and applied and a
\* log line was shown.
HandlersRanDuringConfirmationSeen ==
    /\ prompt # NoPrompt
    /\ sampled > HISTORY_LENGTH
    /\ lastCall = ListCall /\ polls = <<>>
    /\ logBox # <<>>

\* C34: a failed poll or metrics sample leaves both timers and the session
\* as they are; while the failure of a poll is on display in a session
\* that is neither paused nor shut down the refresh timer is running, its
\* next tick issues a request and a pending response replaces processes.
FailuresKeepTimersRunning ==
    /\ [](( Alive /\ ~paused /\ notification.msg = "refreshError") =>
            /\ refreshTimer
            /\ Len(polls) < MaxPolls =>
                  ENABLED (RefreshTick /\ Len(polls') = Len(polls) + 1)
            /\ \A i \in DOMAIN polls :
                  ENABLED (PollListOk(i) /\ processes' # processes))
    /\ [][((\E i \in DOMAIN polls : PollListFail(i)) \/ (MetricsTick /\ lastSample' # "both"))
             => /\ refreshTimer' = refreshTimer
                /\ metricsPc' = metricsPc
                /\ exited' = exited /\ startPc' = startPc
                /\ connected' = connected]_vars

\* C34 witness: a poll has failed, the request of the next tick is pending
\* and a metrics sample has failed with the metrics timer still running.
RetryAfterFailedPollSeen ==
    /\ notification.msg = "refreshError"
    /\ Alive /\ ~paused /\ refreshTimer
    /\ polls # <<>>
    /\ lastSample \in {"cpuRejected", "memRejected"}
    /\ metricsPc = "looping"

\* C35: whenever a handler (a render among them) may run, the
\* filteredProcesses it finds is a projection of the processes it finds,
\* never one derived from an earlier list; a successful refreshProcesses
\* replaces processes, the projection and the detail and insights panels
\* in one step.
RefreshReplacesStateInOneStep ==
    /\ [](\E query \in Queries :
             filteredProcesses = applyFilter(processes, viewMode, query))
    /\ [][AnyRefreshSuccess =>
             /\ processes' \in RegistryLists
             /\ filteredProcesses' = applyFilter(processes', viewMode, searchQuery)
             /\ detailBox' = SelectedOf(selectedIndex, procsNow')
             /\ insightsBox' = SelectedOf(selectedIndex, procsNow')]_vars

\* C35 witness: the forced refresh requested with F5 has been applied
\* while a view mode and a query narrow the list.
NarrowedListRefreshedSeen ==
    /\ notification.msg = "refreshing"
    /\ polls = <<>>
    /\ viewMode = "running"
    /\ searchQuery # ""
    /\ filteredProcesses # <<>>
    /\ filteredProcesses # processes

\* C36: changeSelection(offset) moves selectedIndex to selectedIndex +
\* offset clamped into [0, length - 1] of the active list for the offsets
\* -10, -1, 1 and 10 and writes nothing when the list is empty;
\* jumpToFirst sets it to 0 and jumpToLast to max(0, length - 1); on a
\* non-empty list each of them leaves selectedIndex inside the list.
NavigationStaysInsideList ==
    [][LET length == Len(procsNow)
           clamp(x, lo, hi) == IF x < lo THEN lo ELSE IF x > hi THEN hi ELSE x
           InList == length > 0 => selectedIndex' \in 0..(length - 1)
       IN  /\ \A offset \in {-10, -1, 1, 10} :
                changeSelection(offset) =>
                    /\ IF length = 0 THEN selectedIndex' = selectedIndex
                       ELSE selectedIndex' = clamp(selectedIndex + offset, 0, length - 1)
                    /\ InList
           /\ jumpToFirst => (selectedIndex' = 0 /\ InList)
           /\ jumpToLast =>
                (selectedIndex' = (IF length = 0 THEN 0 ELSE length - 1) /\ InList)]_vars

\* C36 witness: a navigation command has put the selection on the last
\* row of a list of several rows and the log label names that row.
SelectionOnLastRowSeen ==
    /\ Len(procsNow) > 1
    /\ selectedIndex = Len(procsNow) - 1
    /\ logLabel = procsNow[selectedIndex + 1].name

\* C37: when a wrapAction invocation finishes, the notification it leaves
\* is the success message 'completed' if its registry operation had
\* resolved (it was awaiting its refresh, whether that refresh then
\* succeeds or fails) and the error message 'Failed' if the operation, or
\* a request of it, was rejected.
OutcomeFollowsOperation ==
    [][\A i \in 1..MaxActs :
         (acts[i].pc # "idle" /\ acts'[i].pc = "idle")
            => IF acts[i].pc = "refresh"
               THEN /\ ActRefreshOk(i) \/ ActRefreshFail(i)
                    /\ notification'.msg = "completed" /\ notification'.type = "success"
                    /\ notification'.visible
               ELSE /\ acts[i].pc \in {"op", "list", "del"}
                    /\ notification'.msg = "failed" /\ notification'.type = "error"
                    /\ notification'.visible]_vars

\* C37 witness: a confirmed delete-all was reported as failed while a
\* bulk action, whose operation had resolved, awaits its refresh.
FailedBesideResolvedSeen ==
    /\ answer = [kind |-> "deleteAll", confirmed |-> TRUE]
    /\ notification.msg = "failed"
    /\ \E i \in 1..MaxActs : acts[i].pc = "refresh"
    /\ \E i \in 1..MaxActs : acts[i].pc = "idle"

\* C38: the insights panel of the selected process carries a CPU warning
\* iff its cpu is above 50 (the high-CPU warning at cpu 85), a memory
\* warning iff its memory is above 400 MB, the restart warning iff its
\* restart count is above 5, the error-state line iff its status is
\* errored and the stopped line iff its status is stopped; it shows
\* 'All checks passed' iff none of these applies.
InsightsWarnAsDocumented ==
    \A proc \in insightsArg :
        LET Shows(line) == \E k \in DOMAIN insightsText : insightsText[k] = line
            Figure(opt) == IF opt = {} THEN 0 ELSE CHOOSE x \in opt : TRUE
            cpuHigh == Figure(proc.cpu) > 50
            memHigh == Figure(proc.memory) > 400 * 1024 * 1024
            restartsHigh == Figure(proc.restarts) > 5
        IN  /\ (Shows("High CPU usage") \/ Shows("Elevated CPU")) <=> cpuHigh
            /\ proc.cpu = {85} => Shows("High CPU usage")
            /\ (Shows("High memory usage") \/ Shows("Elevated memory")) <=> memHigh
            /\ Shows("Frequent restarts") <=> restartsHigh
            /\ Shows("Process in error state") <=> proc.status = "errored"
            /\ Shows("Process is stopped") <=> proc.status = "stopped"
            /\ Shows("All checks passed") <=>
                  ~(cpuHigh \/ memHigh \/ restartsHigh
                      \/ proc.status \in {"errored", "stopped"})

\* C38 witness: the panel of an online process at cpu 85 with memory and
\* restarts below their thresholds shows the high-CPU warning alone.
HighCpuAloneSeen ==
    /\ insightsArg = {[cpu |-> {85}, memory |-> {0}, restarts |-> {5}, status |-> "online"]}
    /\ insightsText = <<"High CPU usage">>

\* C39: while start() has not yet passed its initial refresh and its log
\* subscription the refresh timer is not set, also when pause is toggled
\* meanwhile, and no timer-driven refresh issues a request before the
\* initial refresh has completed.
TimersStartAfterInitialRefresh ==
    [][/\ startPc' \in {"connecting", "refreshing", "subscribing"} => ~refreshTimer'
       /\ (RefreshTick /\ polls' # polls) => startPc \notin {"connecting", "refreshing"}]_vars

\* The pm2.connect calls whose callback has not run yet: the one of
\* start() and those of the ensureConnected() of pending refreshes and
\* actions.
ConnectsInFlight ==
    (IF startPc = "connecting" THEN 1 ELSE 0)
    + Cardinality({ i \in DOMAIN polls : polls[i].phase = "connect" })
    + Cardinality({ i \in 1..MaxActs : acts[i].pc = "connect" })

\* C40: pm2.connect is issued only by a client that is not connected and
\* has no other connect in flight, the connected flag becomes true only
\* when a connect in flight succeeds and false only by disconnect, and
\* disconnect() of an unconnected client issues no pm2.disconnect.
ConnectIssuedOncePerConnection ==
    [][/\ ConnectsInFlight' > ConnectsInFlight
            => (~connected /\ ConnectsInFlight = 0)
       /\ (~connected /\ connected') => ConnectsInFlight > 0
       /\ (connected /\ ~connected') => (shutdown /\ lastCall' = DisconnectCall)
       /\ (shutdown /\ ~connected)
            => (lastCall' = lastCall
                /\ \A k \in DOMAIN teardown' : teardown'[k] # "pm2.disconnect")]_vars
====
